---- MODULE Spec2Model ----
(***************************************************************************)
(* State-machine model of the stream recorder: the per-variant playlist    *)
(* poller (pkg/media/stream.go) and the persistent transfer queue          *)
(* (pkg/transfer/queue.go) with its storage adapter and cleanup scheduler. *)
(***************************************************************************)
EXTENDS Integers, Sequences, FiniteSets, TLC

(***************************************************************************)
(* Bounds of the model.                                                    *)
(***************************************************************************)
\* largest number of segments a media playlist lists
MaxSegments == 2
\* QueueConfig.MaxQueueSize
MaxQueueSize == 1
\* number of transfer items the file watcher builds over the life of the model
MaxAdds == 2
\* AddOrUpdateSegment calls on one manifest writer
MaxManifestCalls == 3
\* writes and removals of local files under a file watcher
MaxFsOps == 3
\* calls of ScheduleCleanup while ForceCleanupAll runs
MaxSchedules == 2
MaxHeapAdds == 5
MaxStatAdds == 2
MaxRunAdds == 3

(***************************************************************************)
(* Program constants.                                                      *)
(***************************************************************************)
\* constants.WorkerCount: download slots per variant
WorkerCount == 4
\* TransferStatus (iota)
StatusPending == 0
StatusInProgress == 1
StatusCompleted == 2
StatusFailed == 3
StatusRetrying == 4
\* a retry loop that runs one attempt too many
maxRetries_OneMore == 3 + 1
\* processItem: maxRetries
maxRetries == 3

\* the variants GetAllVariants discovered (StreamVariant.ID)
Variants == {0}
\* segment URIs a media playlist may list
SegURIs == {"a.ts", "b.ts"}
\* a nil entry of playlist.Segments
NilSeg == "nil"
\* starting sequence numbers (#EXT-X-MEDIA-SEQUENCE) a media playlist may carry
SeqNos == {0, 1}

\* the transfer workers (QueueConfig.WorkerCount of them)
QueueWorkers == {1}
\* local .ts files under the watched event directory, with the size stat reports
\* (b.ts is a zero-byte file, as a failed download leaves behind)
LocalFiles == [p \in {"/data/ev/1080p/a.ts", "/data/ev/1080p/b.ts"} |->
                  IF p = "/data/ev/1080p/a.ts" THEN 1 ELSE 0]
SrcPaths == DOMAIN LocalFiles
\* files the NAS root holds already, with their size: a copy of b.ts from an
\* earlier recording
RemoteFiles == [d \in {"1080p/a.ts", "1080p/b.ts"} |->
                   IF d = "1080p/b.ts" THEN 1 ELSE -1]
\* byte sizes a file may have
FileSizes == {0, 1}
\* the size recorded for a path that does not exist (os.Stat: not exist)
Absent == -1

VARIABLES
    cancelled,   \* ctx.Done() is closed
    ppc,         \* VariantDownloader: position of each poller
    rest,        \* VariantDownloader: entries of playlist.Segments not yet visited
    closed,      \* VariantDownloader: playlist.Closed of the loaded playlist
    seq,         \* VariantDownloader: local seq
    seen,        \* VariantDownloader: local map seen (set of keys)
    job,         \* VariantDownloader: the job waiting for a slot of sem
    sem,         \* number of tokens held in the channel sem
    tasks,       \* download goroutines in flight, <<variant, key>>
    started,     \* history: number of download goroutines started per variant and key
    blocked,     \* history: the pollers blocked in the send on sem when cancel() ran
    items,       \* TransferQueue.items: the heap array
    stats,       \* TransferQueue.stats
    chans,       \* TransferQueue.workers: the buffered channel of each worker
    wpc,         \* position of each worker goroutine
    cur,         \* processItem: the local copy item of each worker
    attempt,     \* processItem: the loop variable attempt
    dpc,         \* position of the ProcessQueue loop
    phase,       \* life cycle of the transfer service
    stateFile,   \* the document at QueueConfig.PersistencePath
    pendingFiles,\* CleanupService.pendingFiles
    localFs,     \* local files: path -> size, or Absent
    remoteFs,    \* files under the NAS root: destination path -> size, or Absent
    nextId,      \* number of transfer items created so far (ids are unique)
    restored,    \* history: ids LoadState has pushed onto the heap in this run
    wret,        \* history: how the processItem call of each worker returned
    tries,       \* history: TransferFile calls of the current processItem
    sched,       \* history: ScheduleCleanup calls of the current processItem
    mSegments,   \* ManifestWriter.Segments
    mIndex,      \* ManifestWriter.Index: the item each entry points to
    mAdded,      \* history: the labels passed to AddOrUpdateSegment per sequence number
    mCalls,      \* history: number of AddOrUpdateSegment calls
    manifestFile,\* the document at ManifestWriter.ManifestPath
    callArgs,    \* a function of the program under call: its name and arguments
    callResult,  \* what the call returned
    fsEvents,    \* fw.watcher.Events: the events fsnotify has queued
    fwPending,   \* FileWatcher.pendingFiles: the timer stored for each path
    armed,       \* the settling timers that will fire, <<timer, path>>
    fired,       \* the timers whose function is running, past processFile
    nextTimer,   \* number of timers created so far
    fsOps,       \* number of writes and removals so far
    fwRunning,   \* the loop of FileWatcher.Start has not returned
    fwSkipped,   \* history: the timers whose processFile found no file
    fsDirs,      \* the directories that exist under the watch root
    fwWatched,   \* the directories under the root in the watch set of fsnotify
    fpc,         \* position of the call of ForceCleanupAll
    fBatchSize,  \* CleanupConfig.BatchSize of the service
    fBatch,      \* ExecuteCleanup: the part of the batch still to clean
    fctxDone,    \* the context given to ForceCleanupAll is done
    fSched,      \* number of calls of ScheduleCleanup during the drain
    fRetain,     \* CleanupConfig.RetentionPeriod, in hours
    fYoung,      \* the local files modified less than the retention period ago
    nasDisconnected, \* TransferService.Shutdown has called nas.Disconnect
    procDirs,    \* the resolution buckets of the event: label -> file names
    procPos,     \* ParseResolutionDirectory: entries handled, per bucket
    procChan,    \* the channel of SegmentInfo records
    segmentMap,  \* AggregateSegmentInfo: segmentMap
    procPc,      \* position of ProcessingService.Start
    concatFile   \* the concat file and what WriteConcatFile returned

pollerVars == <<ppc, rest, closed, seq, seen, job, sem, tasks, started, blocked>>

queueVars == <<items, stats, chans, wpc, cur, attempt, dpc, phase, stateFile,
               pendingFiles, localFs, remoteFs, nextId, restored,
               wret, tries, sched>>

manifestVars == <<mSegments, mIndex, mAdded, mCalls, manifestFile>>

callVars == <<callArgs, callResult>>

\* the state of the components a specification leaves alone
watcherVars == <<fsEvents, fwPending, armed, fired, nextTimer, fsOps, fwRunning, fwSkipped,
                 fsDirs, fwWatched>>

cleanupVars == <<fpc, fBatchSize, fBatch, fctxDone, fSched, fRetain, fYoung,
                 nasDisconnected>>

procVars == <<procDirs, procPos, procChan, segmentMap, procPc, concatFile>>

auxVars == <<manifestVars, callVars, watcherVars, cleanupVars, procVars>>

\* no call
NoCall == [fn |-> "none"]

IdleCall == callArgs = NoCall /\ callResult = NoCall

\* no file watcher
IdleWatcher ==
    /\ fsEvents = <<>>
    /\ fwPending = <<>>
    /\ armed = {}
    /\ fired = {}
    /\ nextTimer = 0
    /\ fsOps = 0
    /\ fwRunning = FALSE
    /\ fwSkipped = {}
    /\ fsDirs = {}
    /\ fwWatched = {}

vars == <<cancelled, pollerVars, queueVars, auxVars>>

\* the manifest file before WriteManifest has run
NoManifest == [present |-> FALSE, segments |-> <<>>]

\* NewManifestWriter
InitManifest ==
    /\ mSegments = <<>>
    /\ mIndex = <<>>
    /\ mAdded = <<>>
    /\ mCalls = 0
    /\ manifestFile = NoManifest

\* the components a specification leaves alone, as constructed

(***************************************************************************)
(* pkg/media: the variant poller.                                          *)
(***************************************************************************)
\* SegmentJob.Key: "%d:%s" of (Seq, URI). The decimal prefix ends at the
\* first colon, so the string determines the pair; the pair stands for it.
Key(s, uri) == <<s, uri>>

NoJob == <<>>

\* a budget with one slot too many
SemCapacity_OneMore == WorkerCount * Cardinality(Variants) + 1

\* sem := make(chan struct{}, constants.WorkerCount*len(variants))
SemCapacity == WorkerCount * Cardinality(Variants)

RECURSIVE SeqsUpTo(_, _)
SeqsUpTo(S, n) ==
    IF n = 0 THEN {<<>>}
    ELSE LET shorter == SeqsUpTo(S, n - 1)
         IN  shorter \cup {Append(s, x) : s \in {t \in shorter : Len(t) = n - 1}, x \in S}

\* the media playlists a fetch may return: the decoder allocates Segments
\* larger than the number of entries parsed, so the listed segments are
\* followed by nil entries
Playlists ==
    [SeqNo : SeqNos,
     Segments : {s \o <<NilSeg>> : s \in SeqsUpTo(SegURIs, MaxSegments)},
     Closed : BOOLEAN]

MaxSeq == CHOOSE m \in SeqNos : \A n \in SeqNos : n <= m

AllKeys == {Key(s, u) : s \in 0..(MaxSeq + MaxSegments), u \in SegURIs}

\* the segment loop without its dedup test
AlreadySeen_Never(seenSet, k) == FALSE

\* the dedup test of the segment loop: if seen[segmentKey] { seq++; continue }
AlreadySeen(seenSet, k) == k \in seenSet

(***************************************************************************)
(* pkg/media: DownloadSegment.                                             *)
(***************************************************************************)
\* what one client.Do can bring: a transport error, or a response with a
\* status code and a body of so many bytes
Replies ==
    {[kind |-> "neterr", code |-> 0, body |-> 0]} \cup
    {[kind |-> "status", code |-> 200, body |-> n] : n \in {0, 1}} \cup
    {[kind |-> "status", code |-> c, body |-> 0] : c \in {403, 404, 500}}

\* how writing the file ends: MkdirAll fails, os.Create fails, io.Copy fails,
\* or all succeed
WriteOutcomes == {"mkdirErr", "createErr", "copyErr", "ok"}

NoError == [kind |-> "nil", code |-> 0]

HttpError(c) == [kind |-> "HttpError", code |-> c]

\* a segment fetch that never asks again
RetryStatus_Never(code, att) == FALSE

\* DownloadSegment: the status after which the loop continues
RetryStatus(code, att) == code = 403 /\ att = 0

\* the body of the loop of DownloadSegment for attempt att (0 or 1), given the
\* replies of the server to the first and the second request: the error
\* returned, the number of requests issued, and whether the file was created
RECURSIVE DownloadAttempt(_, _, _)
DownloadAttempt(att, replies, fsOutcome) ==
    IF att >= 2
    THEN [err |-> [kind |-> "exhausted retries", code |-> 0], requests |-> att,
          file |-> FALSE]
    ELSE LET resp == replies[att + 1]
         IN  IF resp.kind = "neterr"
             THEN IF att = 1
                  THEN [err |-> [kind |-> "transport", code |-> 0],
                        requests |-> att + 1, file |-> FALSE]
                  ELSE DownloadAttempt(att + 1, replies, fsOutcome)
             ELSE IF resp.code # 200
             THEN IF RetryStatus(resp.code, att)
                  THEN DownloadAttempt(att + 1, replies, fsOutcome)
                  ELSE [err |-> HttpError(resp.code), requests |-> att + 1,
                        file |-> FALSE]
             ELSE IF fsOutcome = "mkdirErr"
             THEN [err |-> [kind |-> "mkdir", code |-> 0], requests |-> att + 1,
                   file |-> FALSE]
             ELSE IF fsOutcome = "createErr"
             THEN [err |-> [kind |-> "create", code |-> 0], requests |-> att + 1,
                   file |-> FALSE]
             ELSE IF fsOutcome = "copyErr"
             THEN [err |-> [kind |-> "copy", code |-> 0], requests |-> att + 1,
                   file |-> TRUE]
             ELSE IF resp.body = 0
             THEN [err |-> [kind |-> "zero-byte", code |-> 0], requests |-> att + 1,
                   file |-> TRUE]
             ELSE [err |-> NoError, requests |-> att + 1, file |-> TRUE]

\* DownloadSegment; badRequest: http.NewRequestWithContext fails
DownloadSegment(replies, fsOutcome, badRequest) ==
    IF badRequest
    THEN [err |-> [kind |-> "request", code |-> 0], requests |-> 0, file |-> FALSE]
    ELSE DownloadAttempt(0, replies, fsOutcome)

\* what the server answers for each segment while the run is not cancelled
ServerReplies ==
    [u \in SegURIs |->
        IF u = "a.ts"
        THEN <<[kind |-> "status", code |-> 403, body |-> 0],
               [kind |-> "status", code |-> 200, body |-> 1]>>
        ELSE <<[kind |-> "status", code |-> 404, body |-> 0],
               [kind |-> "status", code |-> 404, body |-> 0]>>]

\* the download goroutine of the key k has returned
Returned(v, k) == started[v][k] > 0 /\ <<v, k>> \notin tasks

\* in a run that was not cancelled, the download of the key k has returned
\* without error
Downloaded(v, k) ==
    /\ Returned(v, k)
    /\ DownloadSegment(ServerReplies[k[2]], "ok", FALSE).err = NoError

(***************************************************************************)
(* pkg/media: the manifest writer.                                         *)
(***************************************************************************)
ManifestSeqNos == {"1001", "1002"}

ManifestLabels == {"1080p", "1440p", "720p"}

\* the bytes of the strings the manifest compares
Bytes ==
    [s \in ManifestSeqNos \cup ManifestLabels |->
        CASE s = "1001" -> <<49, 48, 48, 49>>
          [] s = "1002" -> <<49, 48, 48, 50>>
          [] s = "1080p" -> <<49, 48, 56, 48, 112>>
          [] s = "1440p" -> <<49, 52, 52, 48, 112>>
          [] s = "720p" -> <<55, 50, 48, 112>>]

\* Go's < on strings: bytewise lexicographic order
RECURSIVE LexLess(_, _)
LexLess(a, b) ==
    IF b = <<>> THEN FALSE
    ELSE IF a = <<>> THEN TRUE
    ELSE IF Head(a) # Head(b) THEN Head(a) < Head(b)
    ELSE LexLess(Tail(a), Tail(b))

StrLess(a, b) == LexLess(Bytes[a], Bytes[b])

ManifestItem(seqNo, resolution) == [SeqNo |-> seqNo, Resolution |-> resolution]

\* ManifestWriter.AddOrUpdateSegment on Segments segs and Index idx. The new
\* item is appended to Segments by value and Index keeps the address of the
\* local variable, so idx[seqNo] is an item of its own
AddOrUpdateSegment(segs, idx, seqNo, resolution) ==
    IF seqNo \in DOMAIN idx
    THEN IF StrLess(idx[seqNo].Resolution, resolution)
         THEN <<segs, [idx EXCEPT ![seqNo].Resolution = resolution]>>
         ELSE <<segs, idx>>
    ELSE <<Append(segs, ManifestItem(seqNo, resolution)),
           (seqNo :> ManifestItem(seqNo, resolution)) @@ idx>>

\* sort.Slice(m.Segments, by SeqNo)
RECURSIVE InsertBySeqNo(_, _)
InsertBySeqNo(sorted, x) ==
    IF sorted = <<>> THEN <<x>>
    ELSE IF StrLess(x.SeqNo, Head(sorted).SeqNo) THEN <<x>> \o sorted
    ELSE <<Head(sorted)>> \o InsertBySeqNo(Tail(sorted), x)

RECURSIVE SortBySeqNo(_)
SortBySeqNo(segs) ==
    IF segs = <<>> THEN <<>>
    ELSE InsertBySeqNo(SortBySeqNo(Tail(segs)), Head(segs))

\* ManifestWriter.WriteManifest: Segments after the sort and the file; ok: the
\* path validates and the file is created and written
WriteManifest(segs, file, ok) ==
    [segments |-> SortBySeqNo(segs),
     file |-> IF ok THEN [present |-> TRUE, segments |-> SortBySeqNo(segs)] ELSE file]

crashed == \E v \in Variants : ppc[v] = "panicked"

InitPoller ==
    /\ ppc = [v \in Variants |-> "fetch"]
    /\ rest = [v \in Variants |-> <<>>]
    /\ closed = [v \in Variants |-> FALSE]
    /\ seq = [v \in Variants |-> 0]
    /\ seen = [v \in Variants |-> {}]
    /\ job = [v \in Variants |-> NoJob]
    /\ sem = 0
    /\ tasks = {}
    /\ started = [v \in Variants |-> [k \in AllKeys |-> 0]]
    /\ blocked = {}

\* top of the loop: the ctx check, then LoadMediaPlaylist
PollerExitCancelled(v) ==
    /\ ~crashed
    /\ ppc[v] = "fetch"
    /\ cancelled
    /\ ppc' = [ppc EXCEPT ![v] = "exited"]
    /\ UNCHANGED <<cancelled, rest, closed, seq, seen, job, sem, tasks, started, blocked,
                   queueVars, auxVars>>

LoadPlaylistOk(v) ==
    /\ ~crashed
    /\ ppc[v] = "fetch"
    /\ ~cancelled
    /\ \E pl \in Playlists :
        /\ seq' = [seq EXCEPT ![v] = pl.SeqNo]
        /\ rest' = [rest EXCEPT ![v] = pl.Segments]
        /\ closed' = [closed EXCEPT ![v] = pl.Closed]
    /\ ppc' = [ppc EXCEPT ![v] = "segments"]
    /\ UNCHANGED <<cancelled, seen, job, sem, tasks, started, blocked,
                   queueVars, auxVars>>

\* LoadMediaPlaylist returned (nil, err): playlist.SeqNo is read before err is
\* tested, a nil dereference that panics
LoadPlaylistErr(v) ==
    /\ ~crashed
    /\ ppc[v] = "fetch"
    /\ ~cancelled
    /\ ppc' = [ppc EXCEPT ![v] = "panicked"]
    /\ UNCHANGED <<cancelled, rest, closed, seq, seen, job, sem, tasks, started, blocked,
                   queueVars, auxVars>>

\* one entry of playlist.Segments, up to the send on sem
VisitSegment(v) ==
    /\ ~crashed
    /\ ppc[v] = "segments"
    /\ rest[v] # <<>>
    /\ LET seg == Head(rest[v])
           k == Key(seq[v], seg)
       IN  /\ rest' = [rest EXCEPT ![v] = Tail(rest[v])]
           /\ IF seg = NilSeg
              THEN UNCHANGED <<seq, seen, job, ppc>>
              ELSE IF AlreadySeen(seen[v], k)
                   THEN /\ seq' = [seq EXCEPT ![v] = seq[v] + 1]
                        /\ UNCHANGED <<seen, job, ppc>>
                   ELSE /\ seen' = [seen EXCEPT ![v] = seen[v] \cup {k}]
                        /\ job' = [job EXCEPT ![v] = k]
                        /\ ppc' = [ppc EXCEPT ![v] = "acquire"]
                        /\ UNCHANGED seq
    /\ UNCHANGED <<cancelled, closed, sem, tasks, started, blocked,
                   queueVars, auxVars>>

\* sem <- struct{}{} succeeds; go func(j SegmentJob){...}(job); seq++
AcquireAndSpawn(v) ==
    /\ ~crashed
    /\ ppc[v] = "acquire"
    /\ sem < SemCapacity
    /\ sem' = sem + 1
    /\ tasks' = tasks \cup {<<v, job[v]>>}
    /\ started' = [started EXCEPT ![v][job[v]] = @ + 1]
    /\ seq' = [seq EXCEPT ![v] = seq[v] + 1]
    /\ job' = [job EXCEPT ![v] = NoJob]
    /\ ppc' = [ppc EXCEPT ![v] = "segments"]
    /\ UNCHANGED <<cancelled, rest, closed, seen, blocked,
                   queueVars, auxVars>>

\* after the segment loop: return on playlist.Closed, else waitTick
EndOfPlaylist(v) ==
    /\ ~crashed
    /\ ppc[v] = "segments"
    /\ rest[v] = <<>>
    /\ ppc' = [ppc EXCEPT ![v] = IF closed[v] THEN "exited" ELSE "waitTick"]
    /\ UNCHANGED <<cancelled, rest, closed, seq, seen, job, sem, tasks, started, blocked,
                   queueVars, auxVars>>

\* waitTick: select on ctx.Done() and ticker.C
WaitTick(v) ==
    /\ ~crashed
    /\ ppc[v] = "waitTick"
    /\ \/ ppc' = [ppc EXCEPT ![v] = "fetch"]
       \/ cancelled /\ ppc' = [ppc EXCEPT ![v] = "exited"]
    /\ UNCHANGED <<cancelled, rest, closed, seq, seen, job, sem, tasks, started, blocked,
                   queueVars, auxVars>>

\* a download goroutine returns: defer func() { <-sem }()
DownloadDone(v, k) ==
    /\ ~crashed
    /\ phase # "exited"
    /\ <<v, k>> \in tasks
    /\ tasks' = tasks \ {<<v, k>>}
    /\ sem' = sem - 1
    /\ UNCHANGED <<cancelled, ppc, rest, closed, seq, seen, job, started, blocked,
                   queueVars, auxVars>>

\* the signal goroutine of Download calls cancel()
Cancel ==
    /\ ~crashed
    /\ phase # "exited"
    /\ ~cancelled
    /\ cancelled' = TRUE
    /\ blocked' = {v \in Variants : ppc[v] = "acquire" /\ sem = SemCapacity}
    /\ UNCHANGED <<ppc, rest, closed, seq, seen, job, sem, tasks, started, queueVars, auxVars>>

\* Download without a transfer service: wg.Wait returns once every poller has
\* returned, WriteManifest runs on the writer of line 52, and the process ends
DownloadReturn(ok) ==
    /\ ~crashed
    /\ phase = "running"
    /\ \A v \in Variants : ppc[v] = "exited"
    /\ LET w == WriteManifest(mSegments, manifestFile, ok)
       IN  /\ mSegments' = w.segments
           /\ manifestFile' = w.file
    /\ phase' = "exited"
    /\ UNCHANGED <<cancelled, pollerVars, items, stats, chans, wpc, cur, attempt,
                   dpc, stateFile, pendingFiles, localFs, remoteFs, nextId,
                   restored, wret, tries, sched, mIndex, mAdded, mCalls, callVars,
                   cleanupVars, watcherVars, procVars>>

NextPoller ==
    \/ \E ok \in BOOLEAN : DownloadReturn(ok)
    \/ \E v \in Variants : PollerExitCancelled(v)
    \/ \E v \in Variants : LoadPlaylistOk(v)
    \/ \E v \in Variants : LoadPlaylistErr(v)
    \/ \E v \in Variants : VisitSegment(v)
    \/ \E v \in Variants : AcquireAndSpawn(v)
    \/ \E v \in Variants : EndOfPlaylist(v)
    \/ \E v \in Variants : WaitTick(v)
    \/ \E v \in Variants, k \in AllKeys : DownloadDone(v, k)
    \/ Cancel

(***************************************************************************)
(* pkg/transfer: the priority queue (container/heap over PriorityQueue).   *)
(* A heap is the sequence q; At(q, i) is the Go element pq[i].             *)
(***************************************************************************)
At(q, i) == q[i + 1]

\* Less with Before for After: the oldest item first
Less_Before(q, i, j) == At(q, i).Timestamp < At(q, j).Timestamp

\* PriorityQueue.Less: pq[i].Timestamp.After(pq[j].Timestamp)
Less(q, i, j) == At(q, i).Timestamp > At(q, j).Timestamp

\* PriorityQueue.Swap
Swap(q, i, j) == [q EXCEPT ![i + 1] = At(q, j), ![j + 1] = At(q, i)]

\* heap.up as heap.Push runs it over PriorityQueue
RECURSIVE HeapUp(_, _)
HeapUp(q, j) ==
    LET i == (j - 1) \div 2
    IN  IF j = 0 \/ i = j \/ ~Less(q, j, i)
        THEN q
        ELSE HeapUp(Swap(q, i, j), i)

\* heap.down as heap.Pop runs it over PriorityQueue
RECURSIVE HeapDown(_, _, _)
HeapDown(q, i, n) ==
    LET j1 == 2 * i + 1
        j2 == j1 + 1
        j  == IF j2 < n /\ Less(q, j2, j1) THEN j2 ELSE j1
    IN  IF j1 >= n
        THEN q
        ELSE IF ~Less(q, j, i)
             THEN q
             ELSE HeapDown(Swap(q, i, j), j, n)

\* heap.Push(pq, x): PriorityQueue.Push appends, then up(Len-1)
HeapPush(q, x) == HeapUp(Append(q, x), Len(q))

\* a Pop that returns the root and leaves it on the heap
HeapPop_Keep(q) == <<q[1], q>>

\* heap.Pop(pq): Swap(0, n), down(0, n), then PriorityQueue.Pop cuts the last
\* element off; the result is <<popped item, remaining heap>>
HeapPop(q) ==
    LET n == Len(q) - 1
        d == HeapDown(Swap(q, 0, n), 0, n)
    IN  <<d[n + 1], SubSeq(d, 1, n)>>

(***************************************************************************)
(* pkg/transfer: QueueStats.                                               *)
(***************************************************************************)
ZeroStats ==
    [TotalAdded |-> 0, TotalCompleted |-> 0, TotalFailed |-> 0,
     CurrentPending |-> 0, BytesTransferred |-> 0]

IncrementAdded(qs) ==
    [qs EXCEPT !.TotalAdded = @ + 1, !.CurrentPending = @ + 1]

\* IncrementCompleted that forgets the byte counter
IncrementCompleted_NoBytes(qs, bytes) ==
    [qs EXCEPT !.TotalCompleted = @ + 1, !.CurrentPending = @ - 1]

IncrementCompleted(qs, bytes) ==
    [qs EXCEPT !.TotalCompleted = @ + 1, !.CurrentPending = @ - 1,
               !.BytesTransferred = @ + bytes]

IncrementFailed(qs) ==
    [qs EXCEPT !.TotalFailed = @ + 1, !.CurrentPending = @ - 1]

(***************************************************************************)
(* Paths and the transfer item the file watcher builds.                    *)
(***************************************************************************)
\* FileWatcher.outputDir
OutputDir == "/data/ev"

\* filepath.Rel(fw.outputDir, filePath) over the files of the model
RelPath(p) ==
    CASE p = "/data/ev/1080p/a.ts" -> "1080p/a.ts"
      [] p = "/data/ev/1080p/b.ts" -> "1080p/b.ts"

DestPaths == {RelPath(p) : p \in SrcPaths}

\* FileWatcher.extractResolution: the first directory component ending in "p"
ExtractResolution(p) == "1080p"

\* processFile without its stat test
ProcessFileStat_Always(fs, p) == TRUE

\* FileWatcher.processFile: os.Stat(filePath) succeeds
ProcessFileStat(fs, p) == fs[p] # Absent

\* FileWatcher.processFile: the TransferItem of a settled file
NewItem(id, p, ts, size) ==
    [ID |-> id, SourcePath |-> p, DestinationPath |-> RelPath(p),
     Resolution |-> ExtractResolution(p), Timestamp |-> ts, RetryCount |-> 0,
     Status |-> StatusPending, FileSize |-> size, LastError |-> ""]

(***************************************************************************)
(* pkg/nas: the storage adapter over a file system fs (path -> size).      *)
(***************************************************************************)
\* NASService.FileExists; statErr: os.Stat failed with an error other than
\* "does not exist"
FileExists(fs, dest, expectedSize, statErr) ==
    IF statErr THEN [exists |-> FALSE, err |-> TRUE]
    ELSE IF fs[dest] = Absent THEN [exists |-> FALSE, err |-> FALSE]
    ELSE IF expectedSize > 0 /\ fs[dest] # expectedSize
         THEN [exists |-> FALSE, err |-> FALSE]
         ELSE [exists |-> TRUE, err |-> FALSE]

\* NASService.VerifyTransfer: both files stat, and the sizes are equal
VerifyTransfer(srcSize, destSize) ==
    srcSize # Absent /\ destSize # Absent /\ srcSize = destSize

\* NASConfig.VerifySize as NewTrasferService sets it
VerifySize == TRUE

\* what one TransferFile call may meet
TransferOutcomes == {"mkdirErr", "openErr", "copyErr", "copied"}

\* TransferFile(nt, ctx, item) on a source of size srcSize and a destination in
\* state destBefore; written is the size CopyFile left at the destination.
\* The result is the error flag, the destination afterwards and the number of
\* CopyFile calls.
TransferFile(srcSize, destBefore, outcome, written) ==
    CASE outcome = "mkdirErr" ->
            [err |-> TRUE, dest |-> destBefore, copyCalls |-> 0]
      [] outcome = "openErr" ->
            [err |-> TRUE, dest |-> destBefore, copyCalls |-> 1]
      [] outcome = "copyErr" ->
            [err |-> TRUE, dest |-> written, copyCalls |-> 1]
      [] outcome = "copied" ->
            IF VerifySize /\ ~VerifyTransfer(srcSize, written)
            THEN [err |-> TRUE, dest |-> Absent, copyCalls |-> 1]
            ELSE [err |-> FALSE, dest |-> written, copyCalls |-> 1]

(***************************************************************************)
(* pkg/transfer: CleanupService.                                           *)
(***************************************************************************)
\* CleanupService.ScheduleCleanup
ScheduleCleanup(pending, enabled, path) ==
    IF enabled THEN Append(pending, path) ELSE pending

\* CleanupConfig.Enabled: cfg.Cleanup.AfterTransfer, true by default
CleanupEnabled == TRUE

\* CleanupConfig.BatchSize (DefaultCleanupBatchSize)
CleanupBatchSize == 1000

Min(a, b) == IF a < b THEN a ELSE b

Range(f) == {f[x] : x \in DOMAIN f}

\* CleanupService.cleanupFile over every path of a batch: with the default
\* retention period of 0 the file is removed; a missing file is no error
RemoveFiles(fs, batch) ==
    [p \in DOMAIN fs |-> IF p \in Range(batch) THEN Absent ELSE fs[p]]

(***************************************************************************)
(* pkg/transfer: the state file.                                           *)
(***************************************************************************)
\* json.Marshal of a TransferItem: every exported field under its Go name,
\* Status as its integer value
MarshalItem(it) ==
    [ID |-> it.ID, SourcePath |-> it.SourcePath,
     DestinationPath |-> it.DestinationPath, Resolution |-> it.Resolution,
     Timestamp |-> it.Timestamp, RetryCount |-> it.RetryCount,
     Status |-> it.Status, FileSize |-> it.FileSize, LastError |-> it.LastError]

\* json.Unmarshal into a TransferItem
UnmarshalItem(j) ==
    [ID |-> j.ID, SourcePath |-> j.SourcePath,
     DestinationPath |-> j.DestinationPath, Resolution |-> j.Resolution,
     Timestamp |-> j.Timestamp, RetryCount |-> j.RetryCount,
     Status |-> j.Status, FileSize |-> j.FileSize, LastError |-> j.LastError]

\* json.Marshal of QueueStats: the exported counters (mu is unexported)
MarshalStats(qs) ==
    [TotalAdded |-> qs.TotalAdded, TotalCompleted |-> qs.TotalCompleted,
     TotalFailed |-> qs.TotalFailed, CurrentPending |-> qs.CurrentPending,
     BytesTransferred |-> qs.BytesTransferred]

UnmarshalStats(j) ==
    [TotalAdded |-> j.TotalAdded, TotalCompleted |-> j.TotalCompleted,
     TotalFailed |-> j.TotalFailed, CurrentPending |-> j.CurrentPending,
     BytesTransferred |-> j.BytesTransferred]

\* SaveState: heap.Pop over a copy of the heap until it is empty
RECURSIVE PopAll(_)
PopAll(q) ==
    IF q = <<>> THEN <<>>
    ELSE LET r == HeapPop(q) IN <<r[1]>> \o PopAll(r[2])

\* no document at PersistencePath (os.IsNotExist)
NoFile == [present |-> FALSE, items |-> <<>>, stats |-> MarshalStats(ZeroStats)]

\* TransferQueue.SaveState: the document written to PersistencePath
SaveState(q, qs) ==
    [present |-> TRUE,
     items |-> [i \in 1..Len(q) |-> MarshalItem(PopAll(q)[i])],
     stats |-> MarshalStats(qs)]

\* LoadState restoring Failed entries only
RestoredStatuses_OnlyFailed == {StatusFailed}

\* LoadState: the statuses of persisted entries that are pushed onto the heap
RestoredStatuses == {StatusPending, StatusFailed}

\* LoadState: for _, item := range state.Items { if ... { heap.Push } }
RECURSIVE PushRestored(_, _)
PushRestored(q, entries) ==
    IF entries = <<>> THEN q
    ELSE LET it == UnmarshalItem(Head(entries))
         IN  PushRestored(IF it.Status \in RestoredStatuses THEN HeapPush(q, it) ELSE q,
                          Tail(entries))

\* TransferQueue.LoadState into the queue (q, qs): <<heap, stats>> afterwards
LoadState(q, qs, file) ==
    IF ~file.present THEN <<q, qs>>
    ELSE <<PushRestored(q, file.items), UnmarshalStats(file.stats)>>

IdsOf(q) == {q[i].ID : i \in 1..Len(q)}

\* the zero value of TransferItem, held by a worker that has received nothing
NoItem ==
    [ID |-> 0, SourcePath |-> "", DestinationPath |-> "", Resolution |-> "",
     Timestamp |-> 0, RetryCount |-> 0, Status |-> StatusPending, FileSize |-> 0,
     LastError |-> ""]

(***************************************************************************)
(* pkg/transfer: TransferQueue.                                            *)
(***************************************************************************)
NumQueueWorkers == Cardinality(QueueWorkers)

\* ProcessQueue: workerChan := make(chan TransferItem, 1)
ChanCapacity == 1

\* Add with the capacity test off by one (> for >=)
Add_OffByOne(q, qs, item) ==
    IF Len(q) > MaxQueueSize
    THEN [err |-> TRUE, items |-> q, stats |-> qs]
    ELSE [err |-> FALSE, items |-> HeapPush(q, item), stats |-> IncrementAdded(qs)]

\* TransferQueue.Add on the heap q and stats qs: the error flag, the heap and
\* the stats afterwards
Add(q, qs, item) ==
    IF Len(q) >= MaxQueueSize
    THEN [err |-> TRUE, items |-> q, stats |-> qs]
    ELSE [err |-> FALSE, items |-> HeapPush(q, item), stats |-> IncrementAdded(qs)]

\* TransferQueue.dispatchWork from worker w on: for each worker whose channel
\* is empty, pop the heap, mark the item InProgress and send a copy; the
\* default branch of the select pushes it back as Pending
RECURSIVE DispatchFrom(_, _, _)
DispatchFrom(w, q, ch) ==
    IF w > NumQueueWorkers THEN <<q, ch>>
    ELSE IF Len(ch[w]) = 0 /\ Len(q) > 0
         THEN LET r == HeapPop(q)
                  it == [r[1] EXCEPT !.Status = StatusInProgress]
              IN  IF Len(ch[w]) < ChanCapacity
                  THEN DispatchFrom(w + 1, r[2], [ch EXCEPT ![w] = Append(@, it)])
                  ELSE DispatchFrom(w + 1,
                                    HeapPush(r[2], [it EXCEPT !.Status = StatusPending]),
                                    ch)
         ELSE DispatchFrom(w + 1, q, ch)

DispatchWork(q, ch) == DispatchFrom(1, q, ch)

\* processItem pushing a permanently failed item back onto the heap
HeapAfterFailed_Requeue(q, item) == HeapPush(q, item)

\* processItem after the third failed attempt: the item is marked Failed on the
\* worker's copy and is not pushed back onto the heap
HeapAfterFailed(q, item) == q

\* processItem when ctx.Done() fires in the backoff wait: it returns, and the
\* heap is left as it is
HeapAfterCancel(q, item) == q

\* the process runs until Download or RunTransferOnly returns after Shutdown
alive == phase \in {"running", "shutdown"}

\* no call of ForceCleanupAll under way
IdleCleanup ==
    /\ fpc = "idle"
    /\ fBatchSize = CleanupBatchSize
    /\ fBatch = <<>>
    /\ fctxDone = FALSE
    /\ fSched = 0
    /\ fRetain = 0
    /\ fYoung = {}
    /\ nasDisconnected = FALSE

\* no post-processing
IdleProcessing ==
    /\ procDirs = <<>>
    /\ procPos = <<>>
    /\ procChan = <<>>
    /\ segmentMap = <<>>
    /\ procPc = "idle"
    /\ concatFile = [err |-> FALSE, lines |-> <<>>]

IdleAux == InitManifest /\ IdleCall /\ IdleWatcher /\ IdleCleanup /\ IdleProcessing

InitQueue ==
    /\ items = <<>>
    /\ stats = ZeroStats
    /\ chans = [w \in QueueWorkers |-> <<>>]
    /\ wpc = [w \in QueueWorkers |-> "idle"]
    /\ cur = [w \in QueueWorkers |-> NoItem]
    /\ attempt = [w \in QueueWorkers |-> 0]
    /\ dpc = "running"
    /\ phase = "running"
    /\ stateFile = NoFile
    /\ pendingFiles = <<>>
    /\ nextId = 0
    /\ restored = {}
    /\ wret = [w \in QueueWorkers |-> "none"]
    /\ tries = [w \in QueueWorkers |-> 0]
    /\ sched = [w \in QueueWorkers |-> 0]

\* the environment of the queue: the local files and what the NAS root
\* already holds
InitEnv ==
    /\ localFs = LocalFiles
    /\ remoteFs = RemoteFiles

\* a queue with nothing of the poller running
IdlePoller ==
    /\ InitPoller

\* a poller with no transfer service
IdleQueue ==
    /\ InitQueue
    /\ localFs = LocalFiles
    /\ remoteFs = RemoteFiles

\* FileWatcher.processFile for the settled file p: stat, build the item
\* (Timestamp: time.Now(), later for every later item), Add
WatcherAdd(p) ==
    /\ alive
    /\ nextId < MaxAdds
    /\ localFs[p] # Absent
    /\ LET item == NewItem(nextId + 1, p, nextId + 1, localFs[p])
           r == Add(items, stats, item)
       IN  /\ items' = r.items
           /\ stats' = r.stats
           /\ nextId' = nextId + 1
    /\ UNCHANGED <<cancelled, pollerVars, auxVars, chans, wpc, cur, attempt, dpc, phase,
                   stateFile, pendingFiles, localFs, remoteFs,
                   restored, wret, tries, sched>>

\* ProcessQueue, case <-ticker.C: dispatchWork, and SaveState when the wall
\* clock second is divisible by 30 (save)
Tick(save) ==
    /\ phase = "running"
    /\ dpc = "running"
    /\ LET d == DispatchWork(items, chans)
       IN  /\ items' = d[1]
           /\ chans' = d[2]
           /\ stateFile' = IF save THEN SaveState(d[1], stats) ELSE stateFile
    /\ UNCHANGED <<cancelled, pollerVars, auxVars, stats, wpc, cur, attempt, dpc, phase,
                   pendingFiles, localFs, remoteFs, nextId, restored,
                   wret, tries, sched>>

\* ProcessQueue, case <-ctx.Done(): the loop returns
DispatcherStop ==
    /\ phase = "running"
    /\ dpc = "running"
    /\ cancelled
    /\ dpc' = "stopped"
    /\ UNCHANGED <<cancelled, pollerVars, auxVars, items, stats, chans, wpc, cur, attempt,
                   phase, stateFile, pendingFiles, localFs,
                   remoteFs, nextId, restored, wret, tries, sched>>

\* worker loop, case item := <-workChan: processItem starts
WorkerReceive(w) ==
    /\ alive
    /\ wpc[w] = "idle"
    /\ chans[w] # <<>>
    /\ cur' = [cur EXCEPT ![w] = Head(chans[w])]
    /\ chans' = [chans EXCEPT ![w] = Tail(chans[w])]
    /\ wpc' = [wpc EXCEPT ![w] = "check"]
    /\ UNCHANGED <<cancelled, pollerVars, auxVars, items, stats, attempt, wret, tries, sched,
                   dpc, phase, stateFile,
                   pendingFiles, localFs, remoteFs, nextId, restored>>

\* processItem has returned: the worker is back at the select of its loop
WorkerLoop(w) ==
    /\ alive
    /\ wpc[w] = "returned"
    /\ wpc' = [wpc EXCEPT ![w] = "idle"]
    /\ cur' = [cur EXCEPT ![w] = NoItem]
    /\ attempt' = [attempt EXCEPT ![w] = 0]
    /\ wret' = [wret EXCEPT ![w] = "none"]
    /\ tries' = [tries EXCEPT ![w] = 0]
    /\ sched' = [sched EXCEPT ![w] = 0]
    /\ UNCHANGED <<cancelled, pollerVars, auxVars, items, stats, chans, dpc, phase, stateFile,
                   pendingFiles, localFs, remoteFs, nextId, restored>>

\* worker loop, case <-ctx.Done(): the worker returns
WorkerExit(w) ==
    /\ alive
    /\ wpc[w] = "idle"
    /\ cancelled
    /\ wpc' = [wpc EXCEPT ![w] = "exited"]
    /\ UNCHANGED <<cancelled, pollerVars, auxVars, items, stats, chans, cur, attempt, dpc,
                   phase, stateFile, pendingFiles, localFs,
                   remoteFs, nextId, restored, wret, tries, sched>>

\* processItem, the FileExists check: on "exists" the item is Completed,
\* counted and handed to cleanup; otherwise the retry loop is entered, which
\* marks the item Retrying before its backoff wait
CheckExists(w, statErr) ==
    /\ alive
    /\ wpc[w] = "check"
    /\ LET item == cur[w]
           r == FileExists(remoteFs, item.DestinationPath, item.FileSize, statErr)
       IN  IF ~r.err /\ r.exists
           THEN /\ cur' = [cur EXCEPT ![w].Status = StatusCompleted]
                /\ stats' = IncrementCompleted(stats, item.FileSize)
                /\ pendingFiles' = ScheduleCleanup(pendingFiles, CleanupEnabled, item.SourcePath)
                /\ sched' = [sched EXCEPT ![w] = @ + 1]
                /\ wret' = [wret EXCEPT ![w] = "exists"]
                /\ wpc' = [wpc EXCEPT ![w] = "returned"]
                /\ UNCHANGED attempt
           ELSE /\ cur' = [cur EXCEPT ![w].Status = StatusRetrying]
                /\ attempt' = [attempt EXCEPT ![w] = 1]
                /\ wpc' = [wpc EXCEPT ![w] = "backoff"]
                /\ wret' = [wret EXCEPT ![w] = IF r.err THEN "statErr" ELSE @]
                /\ UNCHANGED <<stats, pendingFiles, sched>>
    /\ UNCHANGED <<cancelled, pollerVars, auxVars, items, chans, dpc, phase, stateFile,
                   localFs, remoteFs, nextId, restored, tries>>

\* processItem: backoff := time.Duration(attempt*attempt) * time.Second, in
\* seconds; the loop starts at attempt 1 and waits whenever attempt > 0
Backoff(att) == att * att

\* processItem, the backoff select: case <-time.After(backoff)
BackoffElapsed(w) ==
    /\ alive
    /\ wpc[w] = "backoff"
    /\ wpc' = [wpc EXCEPT ![w] = "transfer"]
    /\ UNCHANGED <<cancelled, pollerVars, auxVars, items, stats, chans, cur, attempt, dpc,
                   phase, stateFile, pendingFiles, localFs,
                   remoteFs, nextId, restored, wret, tries, sched>>

\* processItem, the backoff select: case <-ctx.Done(): return
BackoffCancelled(w) ==
    /\ alive
    /\ wpc[w] = "backoff"
    /\ cancelled
    /\ items' = HeapAfterCancel(items, cur[w])
    /\ wret' = [wret EXCEPT ![w] = "cancelled"]
    /\ wpc' = [wpc EXCEPT ![w] = "returned"]
    /\ UNCHANGED <<cancelled, pollerVars, auxVars, stats, chans, cur, attempt, dpc, phase,
                   stateFile, pendingFiles, localFs, remoteFs,
                   nextId, restored, tries, sched>>

\* processItem, one attempt: TransferFile and what follows it
TransferAttempt(w, outcome, written) ==
    /\ alive
    /\ wpc[w] = "transfer"
    /\ localFs[cur[w].SourcePath] = Absent => outcome \in {"mkdirErr", "openErr"}
    /\ LET item == cur[w]
           r == TransferFile(localFs[item.SourcePath], remoteFs[item.DestinationPath],
                             outcome, written)
       IN  /\ remoteFs' = [remoteFs EXCEPT ![item.DestinationPath] = r.dest]
           /\ tries' = [tries EXCEPT ![w] = @ + 1]
           /\ IF ~r.err
              THEN /\ cur' = [cur EXCEPT ![w].Status = StatusCompleted]
                   /\ stats' = IncrementCompleted(stats, item.FileSize)
                   /\ pendingFiles' = ScheduleCleanup(pendingFiles, CleanupEnabled, item.SourcePath)
                   /\ sched' = [sched EXCEPT ![w] = @ + 1]
                   /\ wret' = [wret EXCEPT ![w] = "completed"]
                   /\ wpc' = [wpc EXCEPT ![w] = "returned"]
                   /\ UNCHANGED <<attempt, items>>
              ELSE IF attempt[w] = maxRetries
                   THEN /\ cur' = [cur EXCEPT ![w].LastError = "err",
                                              ![w].RetryCount = @ + 1,
                                              ![w].Status = StatusFailed]
                        /\ stats' = IncrementFailed(stats)
                        /\ items' = HeapAfterFailed(items, cur'[w])
                        /\ wret' = [wret EXCEPT ![w] = "failed"]
                        /\ wpc' = [wpc EXCEPT ![w] = "returned"]
                        /\ UNCHANGED <<attempt, pendingFiles, sched>>
                   ELSE /\ cur' = [cur EXCEPT ![w].LastError = "err",
                                              ![w].RetryCount = @ + 1,
                                              ![w].Status = StatusRetrying]
                        /\ attempt' = [attempt EXCEPT ![w] = @ + 1]
                        /\ wpc' = [wpc EXCEPT ![w] = "backoff"]
                        /\ UNCHANGED <<stats, pendingFiles, sched, wret, items>>
    /\ UNCHANGED <<cancelled, pollerVars, auxVars, chans, dpc, phase, stateFile,
                   localFs, nextId, restored>>

\* CleanupService.Start, case <-ticker.C: ExecuteCleanup takes a batch off the
\* pending list and removes its files
ExecuteCleanup ==
    /\ phase = "running"
    /\ pendingFiles # <<>>
    /\ LET n == Min(CleanupBatchSize, Len(pendingFiles))
       IN  /\ localFs' = RemoveFiles(localFs, SubSeq(pendingFiles, 1, n))
           /\ pendingFiles' = SubSeq(pendingFiles, n + 1, Len(pendingFiles))
    /\ UNCHANGED <<cancelled, pollerVars, auxVars, items, stats, chans, wpc, cur, attempt,
                   dpc, phase, stateFile, remoteFs, nextId, restored,
                   wret, tries, sched>>

\* TransferService.Shutdown, called once Start has returned: SaveState,
\* ForceCleanupAll, Disconnect
Shutdown ==
    /\ phase = "running"
    /\ cancelled
    /\ dpc = "stopped"
    /\ stateFile' = SaveState(items, stats)
    /\ localFs' = RemoveFiles(localFs, pendingFiles)
    /\ pendingFiles' = <<>>
    /\ phase' = "shutdown"
    /\ UNCHANGED <<cancelled, pollerVars, auxVars, items, stats, chans, wpc, cur, attempt,
                   dpc, remoteFs, nextId, restored, wret, tries, sched>>

\* Download returns after Shutdown and the process ends with whatever
\* goroutines and timers are left
ProcessExit ==
    /\ phase = "shutdown"
    /\ phase' = "exited"
    /\ UNCHANGED <<cancelled, pollerVars, auxVars, items, stats, chans, wpc, cur, attempt,
                   dpc, stateFile, pendingFiles, localFs, remoteFs, nextId,
                   restored, wret, tries, sched>>

\* the process is started again: NewTransferQueue builds an empty queue and
\* calls LoadState
Restart ==
    /\ phase = "exited"
    /\ LET l == LoadState(<<>>, ZeroStats, stateFile)
       IN  /\ items' = l[1]
           /\ stats' = l[2]
           /\ restored' = IdsOf(l[1])
    /\ chans' = [w \in QueueWorkers |-> <<>>]
    /\ wpc' = [w \in QueueWorkers |-> "idle"]
    /\ cur' = [w \in QueueWorkers |-> NoItem]
    /\ attempt' = [w \in QueueWorkers |-> 0]
    /\ wret' = [w \in QueueWorkers |-> "none"]
    /\ tries' = [w \in QueueWorkers |-> 0]
    /\ sched' = [w \in QueueWorkers |-> 0]
    /\ dpc' = "running"
    /\ phase' = "running"
    /\ cancelled' = FALSE
    /\ pendingFiles' = <<>>
    /\ UNCHANGED <<pollerVars, auxVars, stateFile, localFs, remoteFs, nextId>>

Next ==
    \/ \E p \in SrcPaths : WatcherAdd(p)
    \/ \E save \in BOOLEAN : Tick(save)
    \/ DispatcherStop
    \/ \E w \in QueueWorkers : WorkerReceive(w)
    \/ \E w \in QueueWorkers : WorkerLoop(w)
    \/ \E w \in QueueWorkers : WorkerExit(w)
    \/ \E w \in QueueWorkers, statErr \in BOOLEAN : CheckExists(w, statErr)
    \/ \E w \in QueueWorkers : BackoffElapsed(w)
    \/ \E w \in QueueWorkers : BackoffCancelled(w)
    \/ \E w \in QueueWorkers, o \in TransferOutcomes, n \in FileSizes :
          TransferAttempt(w, o, n)
    \/ ExecuteCleanup
    \/ Shutdown
    \/ ProcessExit
    \/ Restart
    \/ Cancel

Init == cancelled = FALSE /\ IdlePoller /\ InitQueue /\ InitEnv /\ IdleAux

\* the transfer service
Spec == Init /\ [][Next]_vars

(***************************************************************************)
(* pkg/transfer: the heap under any sequence of Add and dispatchWork.      *)
(***************************************************************************)
\* TransferConfig.QueueSize of defaultConfig, which becomes MaxQueueSize
DefaultQueueSize == 100000

\* the timestamps of the items added (two items may carry the same one)
Timestamps == 1..3

\* TransferQueue.Add with the default capacity, for an item of any timestamp
HeapAdd(p, ts) ==
    /\ nextId < MaxHeapAdds
    /\ Len(items) < DefaultQueueSize
    /\ items' = HeapPush(items, NewItem(nextId + 1, p, ts, localFs[p]))
    /\ stats' = IncrementAdded(stats)
    /\ nextId' = nextId + 1
    /\ UNCHANGED <<cancelled, pollerVars, auxVars, chans, wpc, cur, attempt, dpc, phase,
                   stateFile, pendingFiles, localFs, remoteFs,
                   restored, wret, tries, sched>>

\* ProcessQueue, case <-ticker.C: dispatchWork
HeapDispatch ==
    /\ dpc = "running"
    /\ LET d == DispatchWork(items, chans)
       IN  /\ items' = d[1]
           /\ chans' = d[2]
    /\ UNCHANGED <<cancelled, pollerVars, auxVars, stats, wpc, cur, attempt, dpc, phase,
                   stateFile, pendingFiles, localFs, remoteFs, nextId, restored,
                   wret, tries, sched>>

\* worker loop, case item := <-workChan: the item leaves the channel;
\* processItem works on its copy and never touches the heap
HeapWorkerTakes(w) ==
    /\ chans[w] # <<>>
    /\ chans' = [chans EXCEPT ![w] = Tail(chans[w])]
    /\ UNCHANGED <<cancelled, pollerVars, auxVars, items, stats, wpc, cur, attempt, dpc, phase,
                   stateFile, pendingFiles, localFs, remoteFs, nextId, restored,
                   wret, tries, sched>>

NextHeap ==
    \/ \E p \in {"/data/ev/1080p/a.ts"}, ts \in Timestamps : HeapAdd(p, ts)
    \/ HeapDispatch
    \/ \E w \in QueueWorkers : HeapWorkerTakes(w)

InitHeap ==
    /\ cancelled = FALSE /\ IdlePoller /\ InitQueue /\ IdleAux
    /\ localFs = LocalFiles
    /\ remoteFs = RemoteFiles

\* a queue that is added to and dispatched from
SpecHeap == InitHeap /\ [][NextHeap]_vars

(***************************************************************************)
(* pkg/transfer: QueueStats under concurrent increments and reads. A       *)
(* worker is "completing" or "failing" between the two counter updates of  *)
(* an increment, holding qs.mu.                                            *)
(***************************************************************************)
\* qs.mu is free
StatsUnlocked == \A w \in QueueWorkers : wpc[w] = "idle"

\* TransferQueue.Add, under tq.mu: IncrementAdded, which takes qs.mu
StatsAdd ==
    /\ nextId < MaxStatAdds
    /\ StatsUnlocked
    /\ callArgs = NoCall
    /\ stats' = IncrementAdded(stats)
    /\ nextId' = nextId + 1
    /\ UNCHANGED <<cancelled, pollerVars, manifestVars, watcherVars, cleanupVars, procVars,
                   items, chans, wpc, cur, attempt, dpc, phase, stateFile, pendingFiles,
                   localFs, remoteFs, restored, wret, tries, sched, callArgs, callResult>>

\* processItem, not under tq.mu: IncrementCompleted or IncrementFailed takes
\* qs.mu and updates its first counter
StatsIncrementFirst(w, failed) ==
    /\ StatsUnlocked
    /\ stats.CurrentPending > 0
    /\ stats' = IF failed THEN [stats EXCEPT !.TotalFailed = @ + 1]
                ELSE [stats EXCEPT !.TotalCompleted = @ + 1]
    /\ wpc' = [wpc EXCEPT ![w] = IF failed THEN "failing" ELSE "completing"]
    /\ UNCHANGED <<cancelled, pollerVars, manifestVars, watcherVars, cleanupVars, procVars,
                   items, chans, cur, attempt, dpc, phase, stateFile, pendingFiles,
                   localFs, remoteFs, nextId, restored, wret, tries, sched, callArgs,
                   callResult>>

\* the rest of the increment: CurrentPending--, the bytes of a completed
\* item, and the unlock
StatsIncrementRest(w) ==
    /\ wpc[w] \in {"completing", "failing"}
    /\ stats' = IF wpc[w] = "failing"
                THEN [stats EXCEPT !.CurrentPending = @ - 1]
                ELSE [stats EXCEPT !.CurrentPending = @ - 1, !.BytesTransferred = @ + 1]
    /\ wpc' = [wpc EXCEPT ![w] = "idle"]
    /\ UNCHANGED <<cancelled, pollerVars, manifestVars, watcherVars, cleanupVars, procVars,
                   items, chans, cur, attempt, dpc, phase, stateFile, pendingFiles,
                   localFs, remoteFs, nextId, restored, wret, tries, sched, callArgs,
                   callResult>>

\* QueueStats.GetStats: the five counters, read under qs.mu
StatsGet ==
    /\ StatsUnlocked
    /\ callResult' = [fn |-> "GetStats", stats |-> stats]
    /\ UNCHANGED <<cancelled, pollerVars, manifestVars, watcherVars, cleanupVars, procVars,
                   queueVars, callArgs>>

\* SaveState, under tq.mu and without qs.mu: json.MarshalIndent reads the
\* fields of *tq.stats one after the other; the first three are read
StatsMarshalFirst ==
    /\ callArgs = NoCall
    /\ callArgs' = [fn |-> "SaveState", TotalAdded |-> stats.TotalAdded,
                    TotalCompleted |-> stats.TotalCompleted,
                    TotalFailed |-> stats.TotalFailed]
    /\ UNCHANGED <<cancelled, pollerVars, manifestVars, watcherVars, cleanupVars, procVars,
                   queueVars, callResult>>

\* SaveState: the last two fields are read and the document is written
StatsMarshalRest ==
    /\ callArgs # NoCall
    /\ stateFile' = SaveState(items, [TotalAdded |-> callArgs.TotalAdded,
                                      TotalCompleted |-> callArgs.TotalCompleted,
                                      TotalFailed |-> callArgs.TotalFailed,
                                      CurrentPending |-> stats.CurrentPending,
                                      BytesTransferred |-> stats.BytesTransferred])
    /\ callArgs' = NoCall
    /\ UNCHANGED <<cancelled, pollerVars, manifestVars, watcherVars, cleanupVars, procVars,
                   items, stats, chans, wpc, cur, attempt, dpc, phase, pendingFiles,
                   localFs, remoteFs, nextId, restored, wret, tries, sched, callResult>>

NextStats ==
    \/ StatsAdd
    \/ \E w \in QueueWorkers, failed \in BOOLEAN : StatsIncrementFirst(w, failed)
    \/ \E w \in QueueWorkers : StatsIncrementRest(w)
    \/ StatsGet
    \/ StatsMarshalFirst
    \/ StatsMarshalRest

InitStats ==
    /\ cancelled = FALSE /\ IdlePoller /\ InitQueue /\ IdleAux
    /\ localFs = LocalFiles
    /\ remoteFs = RemoteFiles

\* the counters of a running queue and their readers
SpecStats == InitStats /\ [][NextStats]_vars

(***************************************************************************)
(* pkg/transfer: the queue, its dispatcher and its workers in a run that   *)
(* is never cancelled.                                                     *)
(***************************************************************************)
\* the steps of the dispatcher, the workers and the cleanup loop
QueueProgress ==
    \/ \E save \in BOOLEAN : Tick(save)
    \/ \E w \in QueueWorkers : WorkerReceive(w)
    \/ \E w \in QueueWorkers : WorkerLoop(w)
    \/ \E w \in QueueWorkers, statErr \in BOOLEAN : CheckExists(w, statErr)
    \/ \E w \in QueueWorkers : BackoffElapsed(w)
    \/ \E w \in QueueWorkers, o \in TransferOutcomes, n \in FileSizes :
          TransferAttempt(w, o, n)
    \/ ExecuteCleanup

\* FileWatcher.processFile of a settled file: Add with Timestamp time.Now(),
\* later than that of every earlier item
RunAdd(p) ==
    /\ nextId < MaxRunAdds
    /\ HeapAdd(p, nextId + 1)

NextQueueRun ==
    \/ \E p \in {"/data/ev/1080p/a.ts"} : RunAdd(p)
    \/ QueueProgress

InitQueueRun ==
    /\ cancelled = FALSE /\ IdlePoller /\ InitQueue /\ IdleAux
    /\ localFs = LocalFiles
    /\ remoteFs = RemoteFiles

\* the ticker keeps firing and a worker that can take a step takes it
SpecQueueRun == InitQueueRun /\ [][NextQueueRun]_vars /\ WF_vars(QueueProgress)

(***************************************************************************)
(* pkg/media: calls on a manifest writer.                                  *)
(***************************************************************************)
\* a call of AddOrUpdateSegment
ManifestAdd(seqNo, resolution) ==
    /\ mCalls < MaxManifestCalls
    /\ LET r == AddOrUpdateSegment(mSegments, mIndex, seqNo, resolution)
       IN  /\ mSegments' = r[1]
           /\ mIndex' = r[2]
    /\ mAdded' = IF seqNo \in DOMAIN mAdded
                 THEN [mAdded EXCEPT ![seqNo] = @ \cup {resolution}]
                 ELSE (seqNo :> {resolution}) @@ mAdded
    /\ mCalls' = mCalls + 1
    /\ UNCHANGED <<cancelled, pollerVars, queueVars, manifestFile, callVars, cleanupVars, procVars, watcherVars>>

\* a call of WriteManifest
ManifestWrite(ok) ==
    /\ LET w == WriteManifest(mSegments, manifestFile, ok)
       IN  /\ mSegments' = w.segments
           /\ manifestFile' = w.file
    /\ UNCHANGED <<cancelled, pollerVars, queueVars, mIndex, mAdded, mCalls, callVars, cleanupVars, procVars, watcherVars>>

NextManifest ==
    \/ \E seqNo \in ManifestSeqNos, r \in ManifestLabels : ManifestAdd(seqNo, r)
    \/ \E ok \in BOOLEAN : ManifestWrite(ok)

InitManifestOnly ==
    cancelled = FALSE /\ IdlePoller /\ IdleQueue /\ InitManifest /\ IdleCall /\ IdleWatcher /\ IdleCleanup /\ IdleProcessing

\* a manifest writer under any calls
SpecManifest == InitManifestOnly /\ [][NextManifest]_vars

(***************************************************************************)
(* Destination paths. A path is the sequence of its components.            *)
(***************************************************************************)
\* cfg.Paths.LocalOutput and cfg.NAS.OutputPath
LocalOutput == <<"data">>

NASOutputPath == <<"nas">>

Events == {"ev1", "ev2"}

Resolutions == {"1080p", "720p", "unknown"}

SegmentNames == {"a.ts", "b.ts", "c.ts", "d.ts", "e.ts", "f.ts", "g.ts", "h.ts", "i.ts"}

\* Config.GetEventPath and Config.GetNASEventPath
GetEventPath(eventName) == LocalOutput \o <<eventName>>

GetNASEventPath(eventName) == NASOutputPath \o <<eventName>>

\* filepath.Rel(base, p) for p under base, filepath.Base, filepath.Join
Rel(base, p) == SubSeq(p, Len(base) + 1, Len(p))

Base(p) == p[Len(p)]

Join(a, b) == a \o b

\* the local file <local-output>/<event>/<resolution>/<name>
LocalFile(eventName, resolution, name) == GetEventPath(eventName) \o <<resolution, name>>

\* FileWatcher.processFile: DestinationPath of the item; the watcher is
\* built on localOutputPath = cfg.GetEventPath(eventName)
WatcherDestination(eventName, filePath) == Rel(GetEventPath(eventName), filePath)

\* QueueExistingFiles: nasDestPath
ExistingDestination(localEventPath, filePath) ==
    Join(<<Base(localEventPath)>>, Rel(localEventPath, filePath))

\* NASService.CopyFile: the file written, under NASConfig.Path, which
\* NewTrasferService sets to cfg.NAS.OutputPath
CopyTarget(destinationPath) == Join(NASOutputPath, destinationPath)

\* ParseResolutionDirectory: the directory read for a resolution
BucketPath(eventName, resolution) == GetNASEventPath(eventName) \o <<resolution>>

\* the local files and the two ways an item is built for one
DestinationCalls ==
    [fn : {"processFile", "QueueExistingFiles"}, event : Events,
     resolution : Resolutions, name : SegmentNames]

\* the item is built and its file is copied
ApplyDestination ==
    /\ callArgs.fn \in {"processFile", "QueueExistingFiles"}
    /\ callResult = NoCall
    /\ LET p == LocalFile(callArgs.event, callArgs.resolution, callArgs.name)
           d == IF callArgs.fn = "processFile"
                THEN WatcherDestination(callArgs.event, p)
                ELSE ExistingDestination(GetEventPath(callArgs.event), p)
       IN  callResult' = [fn |-> callArgs.fn, target |-> CopyTarget(d)]
    /\ UNCHANGED <<cancelled, pollerVars, queueVars, manifestVars, watcherVars, cleanupVars, procVars, callArgs>>

InitDestination ==
    /\ cancelled = FALSE /\ IdlePoller /\ IdleQueue /\ InitManifest /\ IdleWatcher /\ IdleCleanup /\ IdleProcessing
    /\ callArgs \in DestinationCalls
    /\ callResult = NoCall

\* the destination of a local file in both modes
SpecDestination == InitDestination /\ [][ApplyDestination]_vars

(***************************************************************************)
(* pkg/transfer: the file watcher and its settling timers.                 *)
(***************************************************************************)
NoTimer == 0

\* the directories of a resolution under the watch root
WatchDirs == {"/data/ev/1080p"}

\* filepath.Dir of a local file of the model
DirOf(p) == "/data/ev/1080p"

\* strings.HasSuffix(strings.ToLower(event.Name), ".ts"), over the names of
\* the model: the files end in .ts, the directories do not
EndsInTs(name) == name \in SrcPaths

InitWatcher ==
    /\ fsEvents = <<>>
    /\ fwPending = [p \in SrcPaths |-> NoTimer]
    /\ armed = {}
    /\ fired = {}
    /\ nextTimer = 0
    /\ fsOps = 0
    /\ fwRunning = TRUE
    /\ fwSkipped = {}
    /\ fsDirs \in SUBSET WatchDirs
    /\ fwWatched = fsDirs

\* the queue variables the watcher never touches
queueRest == <<chans, wpc, cur, attempt, dpc, phase, stateFile, pendingFiles,
               remoteFs, restored, wret, tries, sched>>

\* the downloader creates or writes the file p: fsnotify queues the event
FsWrite(p, size) ==
    /\ fsOps < MaxFsOps
    /\ DirOf(p) \in fsDirs
    /\ fsOps' = fsOps + 1
    /\ localFs' = [localFs EXCEPT ![p] = size]
    /\ fsEvents' = IF DirOf(p) \in fwWatched
                   THEN Append(fsEvents, <<IF localFs[p] = Absent THEN "Create" ELSE "Write", p>>)
                   ELSE fsEvents
    /\ UNCHANGED <<cancelled, pollerVars, items, stats, nextId, queueRest, manifestVars,
                   callVars, cleanupVars, procVars, fwPending, armed, fired, nextTimer, fwRunning, fwSkipped,
                   fsDirs, fwWatched>>

\* the file p is removed: fsnotify queues the event
FsRemove(p) ==
    /\ fsOps < MaxFsOps
    /\ localFs[p] # Absent
    /\ fsOps' = fsOps + 1
    /\ localFs' = [localFs EXCEPT ![p] = Absent]
    /\ fsEvents' = IF DirOf(p) \in fwWatched
                   THEN Append(fsEvents, <<"Remove", p>>)
                   ELSE fsEvents
    /\ UNCHANGED <<cancelled, pollerVars, items, stats, nextId, queueRest, manifestVars,
                   callVars, cleanupVars, procVars, fwPending, armed, fired, nextTimer, fwRunning, fwSkipped,
                   fsDirs, fwWatched>>

\* FileWatcher.scheduleTransfer: stop the timer the map holds for the path,
\* arm a new one and store it
ScheduleTransfer(p) ==
    /\ nextTimer' = nextTimer + 1
    /\ armed' = (armed \ {<<fwPending[p], p>>}) \cup {<<nextTimer + 1, p>>}
    /\ fwPending' = [fwPending EXCEPT ![p] = nextTimer + 1]

\* FileWatcher.cancelPendingTransfer: stop the timer the map holds for the
\* path and delete the entry
CancelPendingTransfer(p) ==
    /\ armed' = armed \ {<<fwPending[p], p>>}
    /\ fwPending' = [fwPending EXCEPT ![p] = NoTimer]
    /\ UNCHANGED nextTimer

\* FileWatcher.Start, case event := <-fw.watcher.Events: handleFileEvent. An
\* event whose name does not end in .ts returns at once; otherwise the timer
\* is scheduled or cancelled, and a Create of a directory adds it to the
\* watch set
HandleFileEvent ==
    /\ fwRunning
    /\ fsEvents # <<>>
    /\ fsEvents' = Tail(fsEvents)
    /\ LET op == Head(fsEvents)[1]
           name == Head(fsEvents)[2]
       IN  IF ~EndsInTs(name)
           THEN UNCHANGED <<armed, fwPending, nextTimer, fwWatched>>
           ELSE /\ IF op \in {"Create", "Write"}
                   THEN ScheduleTransfer(name)
                   ELSE CancelPendingTransfer(name)
                /\ fwWatched' = IF op = "Create" /\ name \in fsDirs
                                THEN fwWatched \cup {name} ELSE fwWatched
    /\ UNCHANGED <<cancelled, pollerVars, queueVars, manifestVars, callVars, cleanupVars, procVars,
                   fired, fsOps, fwRunning, fwSkipped, fsDirs>>

\* DownloadSegment: os.MkdirAll(outputDir) creates the directory of a
\* resolution under the watch root, which is watched: a Create event
FsMkdir(d) ==
    /\ d \notin fsDirs
    /\ fsDirs' = fsDirs \cup {d}
    /\ fsEvents' = Append(fsEvents, <<"Create", d>>)
    /\ UNCHANGED <<cancelled, pollerVars, queueVars, manifestVars, callVars, cleanupVars, procVars,
                   fwPending, armed, fired, nextTimer, fsOps, fwRunning, fwSkipped, fwWatched>>

\* FileWatcher.Start, case <-ctx.Done()
WatcherStop ==
    /\ fwRunning
    /\ cancelled
    /\ fwRunning' = FALSE
    /\ UNCHANGED <<cancelled, pollerVars, queueVars, manifestVars, callVars, cleanupVars, procVars,
                   fsEvents, fwPending, armed, fired, nextTimer, fsOps, fwSkipped,
                   fsDirs, fwWatched>>

\* the timer t of the path p fires: the function of time.AfterFunc runs
\* processFile, which returns without an item when os.Stat fails
TimerFire(t, p) ==
    /\ <<t, p>> \in armed
    /\ nextId < MaxAdds
    /\ armed' = armed \ {<<t, p>>}
    /\ fired' = fired \cup {<<t, p>>}
    /\ IF ProcessFileStat(localFs, p)
       THEN LET r == Add(items, stats, NewItem(nextId + 1, p, nextId + 1, localFs[p]))
            IN  /\ items' = r.items
                /\ stats' = r.stats
                /\ nextId' = nextId + 1
                /\ UNCHANGED fwSkipped
       ELSE /\ fwSkipped' = fwSkipped \cup {t}
            /\ UNCHANGED <<items, stats, nextId>>
    /\ UNCHANGED <<cancelled, pollerVars, queueRest, localFs, manifestVars, callVars, cleanupVars, procVars,
                   fsEvents, fwPending, nextTimer, fsOps, fwRunning,
                   fsDirs, fwWatched>>

\* the function of the timer t ends: delete(fw.pendingFiles, filePath),
\* whichever timer the entry holds by now
TimerDelete(t, p) ==
    /\ <<t, p>> \in fired
    /\ fired' = fired \ {<<t, p>>}
    /\ fwPending' = [fwPending EXCEPT ![p] = NoTimer]
    /\ UNCHANGED <<cancelled, pollerVars, queueVars, manifestVars, callVars, cleanupVars, procVars,
                   fsEvents, armed, nextTimer, fsOps, fwRunning, fwSkipped,
                   fsDirs, fwWatched>>

NextWatcher ==
    \/ \E d \in WatchDirs : FsMkdir(d)
    \/ \E p \in SrcPaths, n \in FileSizes : FsWrite(p, n)
    \/ \E p \in SrcPaths : FsRemove(p)
    \/ HandleFileEvent
    \/ WatcherStop
    \/ \E t \in 1..MaxFsOps, p \in SrcPaths : TimerFire(t, p)
    \/ \E t \in 1..MaxFsOps, p \in SrcPaths : TimerDelete(t, p)
    \/ Cancel

\* a watcher over an event directory that is empty at first
InitWatcherOnly ==
    /\ cancelled = FALSE /\ IdlePoller /\ InitQueue /\ InitManifest /\ IdleCall /\ IdleCleanup /\ IdleProcessing
    /\ InitWatcher
    /\ localFs = [p \in SrcPaths |-> Absent]
    /\ remoteFs = RemoteFiles

\* the file watcher feeding the queue
SpecWatcher == InitWatcherOnly /\ [][NextWatcher]_vars

(***************************************************************************)
(* pkg/transfer: CleanupService.ForceCleanupAll, step by step.             *)
(***************************************************************************)
\* the configured batch sizes tried
BatchSizes == 0..2

\* the configured retention periods tried, in hours (the default is 0)
RetainHours == 0..1

\* the pending lists the drain starts from
PendingLists == {<<>>} \cup {<<p>> : p \in SrcPaths} \cup {<<p, q>> : p, q \in SrcPaths}

\* the queue variables ForceCleanupAll never touches
cleanupRest == <<items, stats, chans, wpc, cur, attempt, dpc, phase, stateFile,
                 remoteFs, nextId, restored, wret, tries, sched>>

\* TransferService.Shutdown: SaveState; an error of it is returned at once
ShutdownSaveState(ok) ==
    /\ fpc = "save"
    /\ stateFile' = IF ok THEN SaveState(items, stats) ELSE stateFile
    /\ fpc' = IF ok THEN "count" ELSE "err"
    /\ UNCHANGED <<cancelled, pollerVars, items, stats, chans, wpc, cur, attempt, dpc, phase,
                   remoteFs, nextId, restored, wret, tries, sched,
                   pendingFiles, localFs, manifestVars, callVars, watcherVars, procVars,
                   fBatchSize, fBatch, fctxDone, fSched, fRetain, fYoung, nasDisconnected>>

\* ForceCleanupAll: read the length of the pending list under the lock
ForceCount ==
    /\ fpc = "count"
    /\ fpc' = IF Len(pendingFiles) = 0 THEN "break" ELSE "execute"
    /\ UNCHANGED <<cancelled, pollerVars, cleanupRest, pendingFiles, localFs, manifestVars,
                   callVars, watcherVars, procVars, fRetain, fYoung, nasDisconnected, fBatchSize, fBatch, fctxDone, fSched>>

\* ForceCleanupAll: the loop was left, return nil
ForceReturnNil ==
    /\ fpc = "break"
    /\ fpc' = "nil"
    /\ UNCHANGED <<cancelled, pollerVars, cleanupRest, pendingFiles, localFs, manifestVars,
                   callVars, watcherVars, procVars, fRetain, fYoung, nasDisconnected, fBatchSize, fBatch, fctxDone, fSched>>

\* ExecuteCleanup under the lock: nothing pending returns nil, otherwise the
\* batch is cut off the front of the list
ForceExecute ==
    /\ fpc = "execute"
    /\ IF Len(pendingFiles) = 0
       THEN fpc' = "yield" /\ UNCHANGED <<pendingFiles, fBatch>>
       ELSE LET n == Min(fBatchSize, Len(pendingFiles))
            IN  /\ fBatch' = SubSeq(pendingFiles, 1, n)
                /\ pendingFiles' = SubSeq(pendingFiles, n + 1, Len(pendingFiles))
                /\ fpc' = "files"
    /\ UNCHANGED <<cancelled, pollerVars, cleanupRest, localFs, manifestVars,
                   callVars, watcherVars, procVars, fRetain, fYoung, nasDisconnected, fBatchSize, fctxDone, fSched>>

\* cleanupFile: a missing file returns nil; with a retention period a file
\* modified less than the period ago is logged as too new and nil is
\* returned; otherwise the file is removed
CleanupFile(fs, p, retainHours, young) ==
    IF fs[p] = Absent THEN fs
    ELSE IF retainHours > 0 /\ p \in young THEN fs
    ELSE RemoveFiles(fs, <<p>>)

\* ExecuteCleanup, one round of the loop over the batch: ctx.Done returns
\* ctx.Err(), otherwise cleanupFile; after the last file it returns nil
ForceFile ==
    /\ fpc = "files"
    /\ IF fBatch = <<>>
       THEN fpc' = "yield" /\ UNCHANGED <<fBatch, localFs>>
       ELSE IF fctxDone
            THEN fpc' = "err" /\ UNCHANGED <<fBatch, localFs>>
            ELSE /\ localFs' = CleanupFile(localFs, Head(fBatch), fRetain, fYoung)
                 /\ fBatch' = Tail(fBatch)
                 /\ UNCHANGED fpc
    /\ UNCHANGED <<cancelled, pollerVars, cleanupRest, pendingFiles, manifestVars,
                   callVars, watcherVars, procVars, fRetain, fYoung, nasDisconnected, fBatchSize, fctxDone, fSched>>

\* ForceCleanupAll: select on ctx.Done and time.After(100 ms)
ForceYield(done) ==
    /\ fpc = "yield"
    /\ done => fctxDone
    /\ fpc' = IF done THEN "err" ELSE "count"
    /\ UNCHANGED <<cancelled, pollerVars, cleanupRest, pendingFiles, localFs, manifestVars,
                   callVars, watcherVars, procVars, fRetain, fYoung, nasDisconnected, fBatchSize, fBatch, fctxDone, fSched>>

\* the deadline of the context of the call passes
ForceDeadline ==
    /\ fpc \notin {"idle", "nil", "err", "down"}
    /\ ~fctxDone
    /\ fctxDone' = TRUE
    /\ UNCHANGED <<cancelled, pollerVars, cleanupRest, pendingFiles, localFs, manifestVars,
                   callVars, watcherVars, procVars, fRetain, fYoung, nasDisconnected, fpc, fBatchSize, fBatch, fSched>>

\* a queue worker, which Start does not wait for, ends a transfer and calls
\* ScheduleCleanup
ForceSchedule(p) ==
    /\ fpc \notin {"idle", "nil", "err", "down"}
    /\ fSched < MaxSchedules
    /\ fSched' = fSched + 1
    /\ pendingFiles' = ScheduleCleanup(pendingFiles, CleanupEnabled, p)
    /\ UNCHANGED <<cancelled, pollerVars, cleanupRest, localFs, manifestVars,
                   callVars, watcherVars, procVars, fRetain, fYoung, nasDisconnected, fpc, fBatchSize, fBatch, fctxDone>>

\* time passes: the file is now older than the retention period
FileAges(p) ==
    /\ fpc \notin {"idle", "nil", "err", "down"}
    /\ p \in fYoung
    /\ fYoung' = fYoung \ {p}
    /\ UNCHANGED <<cancelled, pollerVars, cleanupRest, pendingFiles, localFs, manifestVars,
                   callVars, watcherVars, procVars, fpc, fBatchSize, fBatch, fctxDone, fSched,
                   fRetain, nasDisconnected>>

\* TransferService.Shutdown after ForceCleanupAll: an error of SaveState or of
\* ForceCleanupAll is returned at once; otherwise nas.Disconnect is called and
\* nil is returned
ShutdownReturn ==
    /\ fpc \in {"nil", "err"}
    /\ nasDisconnected' = (fpc = "nil")
    /\ fpc' = "down"
    /\ phase' = "shutdown"
    /\ UNCHANGED <<cancelled, pollerVars, items, stats, chans, wpc, cur, attempt, dpc,
                   stateFile, remoteFs, nextId, restored, wret, tries, sched,
                   pendingFiles, localFs, manifestVars, callVars, watcherVars, procVars,
                   fBatchSize, fBatch, fctxDone, fSched, fRetain, fYoung>>

NextCleanup ==
    \/ ForceCount
    \/ ForceReturnNil
    \/ ForceExecute
    \/ ForceFile
    \/ \E done \in BOOLEAN : ForceYield(done)
    \/ ForceDeadline
    \/ \E p \in SrcPaths : ForceSchedule(p)
    \/ \E p \in SrcPaths : FileAges(p)
    \/ \E ok \in BOOLEAN : ShutdownSaveState(ok)
    \/ ShutdownReturn

\* Start has returned and TransferService.Shutdown is called
InitCleanup ==
    /\ cancelled = TRUE /\ IdlePoller /\ InitManifest /\ IdleCall /\ IdleWatcher
    /\ IdleProcessing
    /\ items = <<>>
    /\ stats = ZeroStats
    /\ chans = [w \in QueueWorkers |-> <<>>]
    /\ wpc = [w \in QueueWorkers |-> "idle"]
    /\ cur = [w \in QueueWorkers |-> NoItem]
    /\ attempt = [w \in QueueWorkers |-> 0]
    /\ dpc = "stopped"
    /\ phase = "running"
    /\ stateFile = NoFile
    /\ nextId = 0
    /\ restored = {}
    /\ wret = [w \in QueueWorkers |-> "none"]
    /\ tries = [w \in QueueWorkers |-> 0]
    /\ sched = [w \in QueueWorkers |-> 0]
    /\ InitEnv
    /\ pendingFiles \in PendingLists
    /\ fpc = "save"
    /\ fBatchSize \in BatchSizes
    /\ fBatch = <<>>
    /\ fctxDone = FALSE
    /\ fSched = 0
    /\ fRetain \in RetainHours
    /\ fYoung \in IF fRetain = 0 THEN {{}} ELSE SUBSET SrcPaths
    /\ nasDisconnected = FALSE

\* one call of TransferService.Shutdown
SpecCleanup == InitCleanup /\ [][NextCleanup]_vars

(***************************************************************************)
(* pkg/media: calls of DownloadSegment.                                    *)
(***************************************************************************)
\* the calls tried: the replies to the first and to the second request, how
\* the file write ends, and whether the request can be built
SegmentCalls ==
    {[fn |-> "DownloadSegment", replies |-> <<r1, r2>>, fsOutcome |-> o, badRequest |-> b] :
        r1 \in Replies, r2 \in Replies, o \in WriteOutcomes, b \in BOOLEAN}

InitSegment ==
    /\ cancelled = FALSE /\ IdlePoller /\ IdleQueue /\ InitManifest /\ IdleWatcher /\ IdleCleanup /\ IdleProcessing
    /\ callArgs \in SegmentCalls
    /\ callResult = NoCall

\* one call of DownloadSegment
ApplySegment ==
    /\ callArgs.fn = "DownloadSegment"
    /\ callResult = NoCall
    /\ callResult' = [fn |-> "DownloadSegment",
                      ret |-> DownloadSegment(callArgs.replies, callArgs.fsOutcome,
                                              callArgs.badRequest)]
    /\ UNCHANGED <<cancelled, pollerVars, queueVars, manifestVars, watcherVars, cleanupVars, procVars, callArgs>>

SpecSegment == InitSegment /\ [][ApplySegment]_vars

(***************************************************************************)
(* pkg/processing: the post-processor. A file name is the sequence of its  *)
(* characters.                                                             *)
(***************************************************************************)
DigitChars == {"0", "1", "2", "3", "4", "5", "6", "7", "8", "9"}

DigitValue(c) ==
    CASE c = "0" -> 0 [] c = "1" -> 1 [] c = "2" -> 2 [] c = "3" -> 3 [] c = "4" -> 4
      [] c = "5" -> 5 [] c = "6" -> 6 [] c = "7" -> 7 [] c = "8" -> 8 [] c = "9" -> 9

\* strconv.Atoi on a string of characters without a sign
RECURSIVE DecimalValue(_)
DecimalValue(cs) ==
    IF cs = <<>> THEN 0
    ELSE 10 * DecimalValue(SubSeq(cs, 1, Len(cs) - 1)) + DigitValue(cs[Len(cs)])

Atoi(cs) ==
    IF cs # <<>> /\ \A i \in 1..Len(cs) : cs[i] \in DigitChars
    THEN [err |-> FALSE, n |-> DecimalValue(cs)]
    ELSE [err |-> TRUE, n |-> 0]

\* strings.HasSuffix(strings.ToLower(name), ".ts")
HasTsSuffix(name) ==
    /\ Len(name) >= 3
    /\ name[Len(name) - 2] = "."
    /\ name[Len(name) - 1] \in {"t", "T"}
    /\ name[Len(name)] \in {"s", "S"}

\* media_1001.ts, media_1002.ts, media_10010.ts, media_init.ts, a.ts
Name1001 == <<"m", "e", "d", "i", "a", "_", "1", "0", "0", "1", ".", "t", "s">>
Name1002 == <<"m", "e", "d", "i", "a", "_", "1", "0", "0", "2", ".", "t", "s">>
Name10010 == <<"m", "e", "d", "i", "a", "_", "1", "0", "0", "1", "0", ".", "t", "s">>
NameInit == <<"m", "e", "d", "i", "a", "_", "i", "n", "i", "t", ".", "t", "s">>
NameShort == <<"a", ".", "t", "s">>

\* what os.ReadDir returns for a bucket, sorted by file name
Listings ==
    {<<>>, <<Name1001>>, <<Name1001, Name10010>>, <<Name1001, Name1002>>,
     <<Name1002, NameInit>>, <<NameShort>>}

\* the directories of the event that GetResolutions keeps (^\d+p$)
BucketLabels == {"1080p", "1440p", "2160p", "720p"}

\* the contents of the buckets tried: the 2160p bucket is empty or holds one
\* segment
BucketContents ==
    {d \in [BucketLabels -> Listings] : d["2160p"] \in {<<>>, <<Name1001>>}}

\* ps.eventName
ProcEvent == "ev1"

\* AggregateSegmentInfo: rank[label], 0 for a label the table lacks
Rank(label) ==
    CASE label = "1080p" -> 1 [] label = "720p" -> 2 [] label = "540p" -> 3
      [] label = "480p" -> 4 [] label = "450p" -> 5 [] label = "360p" -> 6
      [] label = "270p" -> 7 [] label = "240p" -> 8 [] OTHER -> 0

RankTable == {"1080p", "720p", "540p", "480p", "450p", "360p", "270p", "240p"}

\* an aggregation where the record that arrives last is kept
Replaces_Always(segment, current) == TRUE

\* AggregateSegmentInfo: the record replaces the one the map holds
Replaces(segment, current) == Rank(segment.Resolution) < Rank(current.Resolution)

\* AggregateSegmentInfo: the body of the loop over the channel
AggregateStep(m, segment) ==
    IF segment.SeqNo \notin DOMAIN m \/ Replaces(segment, m[segment.SeqNo])
    THEN [k \in DOMAIN m \cup {segment.SeqNo} |->
            IF k = segment.SeqNo THEN segment ELSE m[k]]
    ELSE m

\* keys left in the order the map iteration gave them
RECURSIVE SortInts_Descending(_)
SortInts_Descending(S) ==
    IF S = {} THEN <<>>
    ELSE LET m == CHOOSE x \in S : \A y \in S : x >= y
         IN  <<m>> \o SortInts_Descending(S \ {m})

\* sort.Ints over the keys of the map
RECURSIVE SortInts(_)
SortInts(S) ==
    IF S = {} THEN <<>>
    ELSE LET m == CHOOSE x \in S : \A y \in S : x <= y
         IN  <<m>> \o SortInts(S \ {m})

\* WriteConcatFile: the line of a segment, file '<nas>/<event>/<res>/<name>'
ConcatLine(segment) ==
    [file |-> Join(GetNASEventPath(ProcEvent), <<segment.Resolution, segment.Name>>)]

ConcatOutcomes == {"ok", "ensureDirErr", "createErr", "writeErr"}

\* WriteConcatFile on the map m; with writeErr the write of line failAt fails
WriteConcatFile(m, outcome, failAt) ==
    LET keys == SortInts(DOMAIN m)
        lines == [i \in 1..Len(keys) |-> ConcatLine(m[keys[i]])]
    IN  IF outcome \in {"ensureDirErr", "createErr"}
        THEN [err |-> TRUE, lines |-> <<>>]
        ELSE IF outcome = "writeErr" /\ failAt <= Len(lines)
        THEN [err |-> TRUE, lines |-> SubSeq(lines, 1, failAt - 1)]
        ELSE [err |-> FALSE, lines |-> lines]

\* ParseResolutionDirectory, one round of the loop over the files of the
\* bucket res: a name without .ts is passed over, a name shorter than 10
\* bytes panics at file.Name()[6:10], digits that do not parse are passed
\* over, otherwise the record is sent
ParseEntry(res) ==
    /\ procPc = "aggregate"
    /\ procPos[res] < Len(procDirs[res])
    /\ LET name == procDirs[res][procPos[res] + 1]
           no == Atoi(SubSeq(name, 7, 10))
       IN  IF ~HasTsSuffix(name)
           THEN UNCHANGED <<procChan, procPc>>
           ELSE IF Len(name) < 10
           THEN procPc' = "panic" /\ UNCHANGED procChan
           ELSE IF no.err
           THEN UNCHANGED <<procChan, procPc>>
           ELSE /\ procChan' = Append(procChan, [Name |-> name, SeqNo |-> no.n,
                                                 Resolution |-> res])
                /\ UNCHANGED procPc
    /\ procPos' = [procPos EXCEPT ![res] = @ + 1]
    /\ UNCHANGED <<cancelled, pollerVars, queueVars, manifestVars, callVars, watcherVars,
                   cleanupVars, procDirs, segmentMap, concatFile>>

\* AggregateSegmentInfo: for segment := range ch
AggregateReceive ==
    /\ procPc = "aggregate"
    /\ procChan # <<>>
    /\ segmentMap' = AggregateStep(segmentMap, Head(procChan))
    /\ procChan' = Tail(procChan)
    /\ UNCHANGED <<cancelled, pollerVars, queueVars, manifestVars, callVars, watcherVars,
                   cleanupVars, procDirs, procPos, procPc, concatFile>>

\* every ParseResolutionDirectory has returned, the channel is closed and
\* drained: AggregateSegmentInfo returns the map
AggregateReturn ==
    /\ procPc = "aggregate"
    /\ procChan = <<>>
    /\ \A res \in DOMAIN procDirs : procPos[res] = Len(procDirs[res])
    /\ procPc' = "write"
    /\ UNCHANGED <<cancelled, pollerVars, queueVars, manifestVars, callVars, watcherVars,
                   cleanupVars, procDirs, procPos, procChan, segmentMap, concatFile>>

\* Start: WriteConcatFile(segments)
WriteConcat(outcome, failAt) ==
    /\ procPc = "write"
    /\ concatFile' = WriteConcatFile(segmentMap, outcome, failAt)
    /\ procPc' = IF concatFile'.err THEN "failed" ELSE "done"
    /\ UNCHANGED <<cancelled, pollerVars, queueVars, manifestVars, callVars, watcherVars,
                   cleanupVars, procDirs, procPos, procChan, segmentMap>>

NextProcessing ==
    \/ \E res \in BucketLabels : ParseEntry(res)
    \/ AggregateReceive
    \/ AggregateReturn
    \/ \E outcome \in ConcatOutcomes, failAt \in 1..2 : WriteConcat(outcome, failAt)

\* Start after GetResolutions: one parser per bucket and the aggregator
InitProcessing ==
    /\ cancelled = FALSE /\ IdlePoller /\ IdleQueue /\ InitManifest /\ IdleCall
    /\ IdleWatcher /\ IdleCleanup
    /\ procDirs \in BucketContents
    /\ procPos = [res \in BucketLabels |-> 0]
    /\ procChan = <<>>
    /\ segmentMap = <<>>
    /\ procPc = "aggregate"
    /\ concatFile = [err |-> FALSE, lines |-> <<>>]

\* the post-processor of one event
SpecProcessing == InitProcessing /\ [][NextProcessing]_vars

(***************************************************************************)
(* pkg/config: Load. An environment value is the sequence of its           *)
(* characters; <<>> is a variable that is unset or empty.                  *)
(***************************************************************************)
\* defaultConfig; RefreshDelay in seconds
DefaultConfig ==
    [WorkerCount |-> 4, RefreshDelay |-> 3, EnableTransfer |-> TRUE, OutputPath |-> <<>>,
     ProcessingEnabled |-> TRUE, FFmpegPath |-> <<"f", "f", "m", "p", "e", "g">>]

EnvTrue == <<"t", "r", "u", "e">>

\* the environments tried
Environments ==
    [WORKER_COUNT : {<<>>, <<"8">>, <<"x">>},
     REFRESH_DELAY_SECONDS : {<<>>, <<"5">>},
     NAS_OUTPUT_PATH : {<<>>, <<"/", "n", "a", "s">>},
     ENABLE_NAS_TRANSFER : {<<>>, EnvTrue, <<"n", "o">>}]

\* Config.loadFromEnvironment
LoadFromEnvironment(c, env) ==
    [c EXCEPT
       !.WorkerCount = IF env.WORKER_COUNT # <<>> /\ ~Atoi(env.WORKER_COUNT).err
                       THEN Atoi(env.WORKER_COUNT).n ELSE @,
       !.RefreshDelay = IF env.REFRESH_DELAY_SECONDS # <<>>
                           /\ ~Atoi(env.REFRESH_DELAY_SECONDS).err
                        THEN Atoi(env.REFRESH_DELAY_SECONDS).n ELSE @,
       !.OutputPath = IF env.NAS_OUTPUT_PATH # <<>> THEN env.NAS_OUTPUT_PATH ELSE @,
       !.EnableTransfer = IF env.ENABLE_NAS_TRANSFER # <<>>
                          THEN env.ENABLE_NAS_TRANSFER = EnvTrue ELSE @]

\* Config.resolveAndValidatePaths: the error it returns, "" for nil; getwdErr
\* and mkdirErr: os.Getwd and os.MkdirAll fail
ResolveAndValidatePaths(c, getwdErr, mkdirErr) ==
    IF getwdErr THEN "failed to get working directory"
    ELSE IF mkdirErr THEN "failed to create directory"
    ELSE IF c.EnableTransfer /\ c.OutputPath = <<>>
    THEN "NAS output path is required when transfer is enabled"
    ELSE IF c.ProcessingEnabled /\ c.FFmpegPath = <<>>
    THEN "FFmpeg path is required when processing is enabled"
    ELSE ""

\* config.Load: (nil, err) or (&cfg, nil)
Load(env, getwdErr, mkdirErr) ==
    LET c == LoadFromEnvironment(DefaultConfig, env)
        e == ResolveAndValidatePaths(c, getwdErr, mkdirErr)
    IN  IF e # "" THEN [err |-> e, cfg |-> <<>>] ELSE [err |-> "", cfg |-> c]

LoadCalls ==
    [fn : {"Load"}, env : Environments, getwdErr : BOOLEAN, mkdirErr : BOOLEAN]

InitConfig ==
    /\ cancelled = FALSE /\ IdlePoller /\ IdleQueue /\ InitManifest /\ IdleWatcher /\ IdleCleanup /\ IdleProcessing
    /\ callArgs \in LoadCalls
    /\ callResult = NoCall

\* one call of config.Load
ApplyLoad ==
    /\ callArgs.fn = "Load"
    /\ callResult = NoCall
    /\ callResult' = [fn |-> "Load",
                      ret |-> Load(callArgs.env, callArgs.getwdErr, callArgs.mkdirErr)]
    /\ UNCHANGED <<cancelled, pollerVars, queueVars, manifestVars, watcherVars, cleanupVars, procVars, callArgs>>

SpecConfig == InitConfig /\ [][ApplyLoad]_vars

(***************************************************************************)
(* pkg/media: GetAllVariants. A string is the sequence of its characters.  *)
(***************************************************************************)
\* strings.Split(cs, "x")
RECURSIVE SplitX(_)
SplitX(cs) ==
    IF \A i \in 1..Len(cs) : cs[i] # "x" THEN <<cs>>
    ELSE LET i == CHOOSE k \in 1..Len(cs) : cs[k] = "x" /\ \A j \in 1..(k - 1) : cs[j] # "x"
         IN  <<SubSeq(cs, 1, i - 1)>> \o SplitX(SubSeq(cs, i + 1, Len(cs)))

\* extractResolution: the height of RESOLUTION=<w>x<h> with a p, otherwise a
\* label by bandwidth
extractResolution(variant) ==
    IF variant.Resolution # <<>> /\ Len(SplitX(variant.Resolution)) = 2
    THEN SplitX(variant.Resolution)[2] \o <<"p">>
    ELSE IF variant.Bandwidth >= 5000000 THEN <<"1", "0", "8", "0", "p">>
    ELSE IF variant.Bandwidth >= 3000000 THEN <<"7", "2", "0", "p">>
    ELSE IF variant.Bandwidth >= 1500000 THEN <<"4", "8", "0", "p">>
    ELSE IF variant.Bandwidth >= 800000 THEN <<"3", "6", "0", "p">>
    ELSE <<"2", "4", "0", "p">>

\* GetAllVariants: a media playlist gives one variant "unknown"; a master
\* playlist gives one StreamVariant per entry, in <outputDir>/<resolution>
GetAllVariants(fetchErr, listType, master, outputDir) ==
    IF fetchErr THEN [err |-> TRUE, variants |-> <<>>]
    ELSE IF listType = "MEDIA"
    THEN [err |-> FALSE,
          variants |-> <<[ID |-> 0, Bandwidth |-> 0,
                          Resolution |-> <<"u", "n", "k", "n", "o", "w", "n">>,
                          OutputDir |-> Join(outputDir, <<<<"u", "n", "k", "n", "o", "w", "n">>>>)]>>]
    ELSE IF Len(master) = 0 THEN [err |-> TRUE, variants |-> <<>>]
    ELSE [err |-> FALSE,
          variants |-> [i \in 1..Len(master) |->
                          [ID |-> i - 1, Bandwidth |-> master[i].Bandwidth,
                           Resolution |-> extractResolution(master[i]),
                           OutputDir |-> Join(outputDir, <<extractResolution(master[i])>>)]]]

\* the variants of the master playlists tried: RESOLUTION absent, 1920x1080,
\* 1280x720, or malformed ("1080"), with a bandwidth
MasterVariants ==
    [Resolution : {<<>>, <<"1", "9", "2", "0", "x", "1", "0", "8", "0">>,
                   <<"1", "2", "8", "0", "x", "7", "2", "0">>, <<"1", "0", "8", "0">>},
     Bandwidth : {6000000, 3200000, 100000}]

MasterPlaylists == {<<>>} \cup {<<a>> : a \in MasterVariants}
                       \cup {<<a, b>> : a \in MasterVariants, b \in MasterVariants}

VariantCalls ==
    [fn : {"GetAllVariants"}, fetchErr : BOOLEAN, listType : {"MEDIA", "MASTER"},
     master : MasterPlaylists]

InitVariants ==
    /\ cancelled = FALSE /\ IdlePoller /\ IdleQueue /\ InitManifest /\ IdleWatcher /\ IdleCleanup /\ IdleProcessing
    /\ callArgs \in VariantCalls
    /\ callResult = NoCall

\* one call of GetAllVariants with the output directory of the event
ApplyVariants ==
    /\ callArgs.fn = "GetAllVariants"
    /\ callResult = NoCall
    /\ callResult' = [fn |-> "GetAllVariants",
                      ret |-> GetAllVariants(callArgs.fetchErr, callArgs.listType,
                                             callArgs.master, <<"data", "ev1">>)]
    /\ UNCHANGED <<cancelled, pollerVars, queueVars, manifestVars, watcherVars, cleanupVars, procVars, callArgs>>

SpecVariants == InitVariants /\ [][ApplyVariants]_vars

\* Download up to the start of the pollers, with no transfer service
InitDownload == cancelled = FALSE /\ InitPoller /\ IdleQueue /\ IdleAux

\* the variant pollers
SpecPoller == InitDownload /\ [][NextPoller]_vars


(***************************************************************************)
(* cmd/downloader: Download with the transfer service running. Its         *)
(* WaitGroup counts the pollers and the goroutine of TransferService.Start.*)
(***************************************************************************)
\* TransferService.Start returns: its four goroutines (cleanup, watcher,
\* queue, stats report) have all returned, each on ctx.Done()
TransferStartReturn ==
    /\ ~crashed
    /\ DispatcherStop

\* Download: wg.Wait() returns once every poller and TransferService.Start
\* have returned; then transferService.Shutdown
DownloadShutdown ==
    /\ ~crashed
    /\ \A v \in Variants : ppc[v] = "exited"
    /\ Shutdown

\* Download: manifestWriter.WriteManifest() and return
DownloadFinish(ok) ==
    /\ ~crashed
    /\ phase = "shutdown"
    /\ LET w == WriteManifest(mSegments, manifestFile, ok)
       IN  /\ mSegments' = w.segments
           /\ manifestFile' = w.file
    /\ phase' = "exited"
    /\ UNCHANGED <<cancelled, pollerVars, items, stats, chans, wpc, cur, attempt,
                   dpc, stateFile, pendingFiles, localFs, remoteFs, nextId,
                   restored, wret, tries, sched, mIndex, mAdded, mCalls, callVars,
                   cleanupVars, watcherVars, procVars>>

\* every step of the run but the delivery of a signal
DownloadProgress ==
    \/ \E v \in Variants : PollerExitCancelled(v)
    \/ \E v \in Variants : LoadPlaylistOk(v)
    \/ \E v \in Variants : LoadPlaylistErr(v)
    \/ \E v \in Variants : VisitSegment(v)
    \/ \E v \in Variants : AcquireAndSpawn(v)
    \/ \E v \in Variants : EndOfPlaylist(v)
    \/ \E v \in Variants : WaitTick(v)
    \/ \E v \in Variants, k \in AllKeys : DownloadDone(v, k)
    \/ TransferStartReturn
    \/ DownloadShutdown
    \/ \E ok \in BOOLEAN : DownloadFinish(ok)

NextDownloadService ==
    \/ DownloadProgress
    \/ Cancel

InitDownloadService == cancelled = FALSE /\ InitPoller /\ IdleQueue /\ IdleAux

\* download mode with the transfer service; every goroutine that can take a
\* step eventually takes one, and a signal may never come
SpecDownloadService ==
    InitDownloadService /\ [][NextDownloadService]_vars /\ WF_vars(DownloadProgress)

(***************************************************************************)
(* The file documents LoadState may meet, and the start of a process on    *)
(* one of them.                                                            *)
(***************************************************************************)
Statuses == {StatusPending, StatusInProgress, StatusCompleted, StatusFailed,
             StatusRetrying}

\* a persisted entry for the file p with id i and status st
FileEntry(i, p, st) == MarshalItem([NewItem(i, p, i, LocalFiles[p]) EXCEPT !.Status = st])

\* state documents of one or two entries with any statuses
FileDocs ==
    {[present |-> TRUE, items |-> <<FileEntry(1, p, st)>>, stats |-> MarshalStats(ZeroStats)] :
        p \in SrcPaths, st \in Statuses}
    \cup
    {[present |-> TRUE, items |-> <<FileEntry(1, p, s1), FileEntry(2, p2, s2)>>,
      stats |-> MarshalStats(IncrementAdded(ZeroStats))] :
        p \in SrcPaths, p2 \in SrcPaths, s1 \in Statuses, s2 \in Statuses}

\* before NewTransferQueue has run, with some state document on disk
InitLoad ==
    /\ cancelled = FALSE
    /\ IdlePoller
    /\ IdleAux
    /\ items = <<>>
    /\ stats = ZeroStats
    /\ chans = [w \in QueueWorkers |-> <<>>]
    /\ wpc = [w \in QueueWorkers |-> "idle"]
    /\ cur = [w \in QueueWorkers |-> NoItem]
    /\ attempt = [w \in QueueWorkers |-> 0]
    /\ dpc = "running"
    /\ phase = "exited"
    /\ stateFile \in FileDocs
    /\ pendingFiles = <<>>
    /\ nextId = 0
    /\ restored = {}
    /\ wret = [w \in QueueWorkers |-> "none"]
    /\ tries = [w \in QueueWorkers |-> 0]
    /\ sched = [w \in QueueWorkers |-> 0]
    /\ localFs = LocalFiles
    /\ remoteFs = RemoteFiles

\* LoadState applied to a state document
SpecLoad == InitLoad /\ [][Restart]_vars

(***************************************************************************)
(* Properties of the variant poller.                                       *)
(***************************************************************************)

\* C1: for every variant and every segment key it has observed, exactly one
\* download task has been started: never two, and never zero once the poller
\* has got past the semaphore for that key; a key not observed has none.
C1_ExactlyOneDownloadPerKey ==
    \A v \in Variants : \A k \in AllKeys :
        /\ started[v][k] <= 1
        /\ k \in seen[v] =>
              \/ started[v][k] = 1
              \/ ppc[v] = "acquire" /\ job[v] = k
        /\ k \notin seen[v] => started[v][k] = 0

\* C1: a refresh repeats a segment whose download was started and has ended,
\* and the poller stands before that segment again
C1_RepeatedSegmentObserved ==
    \E v \in Variants : \E k \in AllKeys :
        /\ started[v][k] = 1
        /\ <<v, k>> \notin tasks
        /\ ppc[v] = "segments"
        /\ rest[v] # <<>>
        /\ Key(seq[v], Head(rest[v])) = k

(***************************************************************************)
(* Properties of the transfer queue.                                       *)
(***************************************************************************)

\* the worker w holds an item it has not finished
Processing(w) == wpc[w] \in {"check", "backoff", "transfer"}

\* the ids of the items added and not yet Completed or Failed: on the heap,
\* buffered in a worker channel, or held by a worker
NonTerminalIds ==
    IdsOf(items)
    \cup UNION {IdsOf(chans[w]) : w \in QueueWorkers}
    \cup {cur[w].ID : w \in {x \in QueueWorkers : Processing(x)}}

\* no item is buffered in a channel or held by a worker
NoneDispatched ==
    \A w \in QueueWorkers : chans[w] = <<>> /\ ~Processing(w)

\* C2: every snapshot SaveState writes holds every item added and not yet
\* Completed or Failed, the dispatched ones included.
C2_SnapshotHoldsDispatched ==
    [][stateFile' # stateFile => NonTerminalIds' \subseteq IdsOf(stateFile'.items)]_vars

\* C3: when cancellation ends a backoff wait, the item the worker held is on
\* the heap again with status Pending.
C3_CancelledItemRequeued ==
    \A w \in QueueWorkers :
        (wpc[w] = "returned" /\ wret[w] = "cancelled") =>
            \E i \in 1..Len(items) :
                items[i].ID = cur[w].ID /\ items[i].Status = StatusPending

\* C4: the state file never holds an entry whose status is Completed or
\* Failed, in the first run and in every run started from a state file.
C4_NoTerminalInSnapshot ==
    \A i \in 1..Len(stateFile.items) :
        stateFile.items[i].Status \notin {StatusCompleted, StatusFailed}

\* C4: a run that was started from a state file, has finished an item as
\* Completed or Failed, and has written a snapshot that is not empty
C4_SnapshotAfterRestoreAndFinish ==
    /\ restored # {}
    /\ stateFile.present
    /\ stateFile.items # <<>>
    /\ stateFile.stats.TotalCompleted + stateFile.stats.TotalFailed > 0
    /\ \E w \in QueueWorkers : wret[w] \in {"completed", "exists", "failed"}

\* the number of positions of the sequence q holding x
Count(q, x) == Cardinality({i \in 1..Len(q) : q[i] = x})

\* the sequences a and b hold the same items the same number of times
SameMultiset(a, b) ==
    /\ Len(a) = Len(b)
    /\ \A x \in Range(a) \cup Range(b) : Count(a, x) = Count(b, x)

C6_LoadRestoresNonCompleted ==
    (phase = "running" /\ stateFile.present) =>
        \A i \in 1..Len(stateFile.items) :
            LET e == stateFile.items[i]
            IN  /\ e.Status # StatusCompleted =>
                      \E j \in 1..Len(items) :
                          /\ items[j].ID = e.ID
                          /\ e.Status \in {StatusInProgress, StatusRetrying} =>
                                items[j].Status = StatusPending
                /\ e.Status = StatusCompleted => e.ID \notin IdsOf(items)

\* the item processFile builds next for the file p
NextItem(p) == NewItem(nextId + 1, p, nextId + 1, localFs[p])

\* C7: an Add on a queue holding max_queue_size items returns the queue-full
\* error and changes neither the heap nor the counters; an Add on a queue
\* holding fewer inserts the item and adds one to TotalAdded and to
\* CurrentPending, and to no other counter.
C7_AddAtCapacity ==
    [][nextId' = nextId + 1 =>
        \E p \in {x \in SrcPaths : localFs[x] # Absent} :
            LET r == Add(items, stats, NextItem(p))
            IN  IF Len(items) >= MaxQueueSize
                THEN /\ r.err
                     /\ items' = items
                     /\ stats' = stats
                ELSE /\ ~r.err
                     /\ Len(items') = Len(items) + 1
                     /\ SameMultiset(items', Append(items, NextItem(p)))
                     /\ stats' = [stats EXCEPT !.TotalAdded = @ + 1,
                                               !.CurrentPending = @ + 1]
    ]_vars

\* C7: a full queue on which an Add has been refused
C7_AddRefused ==
    /\ Len(items) = MaxQueueSize
    /\ nextId > stats.TotalAdded

\* the destination of the item exists on the NAS at the item's size
DestAtExpectedSize(item) ==
    /\ remoteFs[item.DestinationPath] # Absent
    /\ remoteFs[item.DestinationPath] = item.FileSize

\* the worker w gets the answer of the existence check in this step
LeavesCheck(w) == wpc[w] = "check" /\ wpc'[w] \in {"returned", "backoff"}

\* what processItem does on the already-exists path
SkipsCopy(w) ==
    /\ wpc'[w] = "returned"
    /\ tries'[w] = 0
    /\ remoteFs' = remoteFs
    /\ cur'[w].Status = StatusCompleted
    /\ stats'.TotalCompleted = stats.TotalCompleted + 1
    /\ stats'.BytesTransferred = stats.BytesTransferred + cur[w].FileSize
    /\ pendingFiles' = Append(pendingFiles, cur[w].SourcePath)

\* C8 as stated: whenever the destination exists at the expected size, the
\* worker skips the copy, completes the item, counts it and its bytes, and
\* schedules the source for cleanup.
C8_ExistingDestinationAlwaysSkipsCopy ==
    [][\A w \in QueueWorkers :
          (LeavesCheck(w) /\ DestAtExpectedSize(cur[w])) => SkipsCopy(w)]_vars

\* C8: whenever the destination exists at the expected size and the stat of
\* the destination does not fail, the worker skips the copy, completes the
\* item, counts it and its bytes, and schedules the source for cleanup.
C8_ExistingDestinationSkipsCopy ==
    [][\A w \in QueueWorkers :
          (LeavesCheck(w) /\ DestAtExpectedSize(cur[w]) /\ wret'[w] # "statErr")
              => SkipsCopy(w)]_vars

\* C8: a worker has returned from the already-exists path for an item of one
\* byte whose source is scheduled for cleanup
C8_CompletedWithoutCopy ==
    \E w \in QueueWorkers :
        /\ wpc[w] = "returned"
        /\ wret[w] = "exists"
        /\ cur[w].FileSize > 0
        /\ tries[w] = 0
        /\ cur[w].SourcePath \in Range(pendingFiles)

\* C9: when the third attempt on an item fails, the worker returns with
\* three attempts made, the item Failed with retry count 3, TotalFailed one
\* higher, and nothing scheduled for cleanup; within a run TotalFailed
\* changes in no other step (a restart reads the counters from the state
\* file).
C9_ThreeFailuresThenFailed ==
    [][/\ \A w \in QueueWorkers :
             (/\ wpc[w] = "transfer" /\ tries[w] = 2 /\ tries'[w] = 3
              /\ cur'[w].Status # StatusCompleted) =>
                 /\ wpc'[w] = "returned"
                 /\ wret'[w] = "failed"
                 /\ tries'[w] = 3
                 /\ cur'[w].Status = StatusFailed
                 /\ cur'[w].RetryCount = 3
                 /\ stats'.TotalFailed = stats.TotalFailed + 1
                 /\ sched'[w] = 0
                 /\ pendingFiles' = pendingFiles
       /\ (stats'.TotalFailed # stats.TotalFailed /\ phase # "exited") =>
             \E w \in QueueWorkers :
                 wpc[w] = "transfer" /\ tries[w] = 2 /\ wret'[w] = "failed"
    ]_vars

\* C9: a worker has returned from an item that failed three times
C9_FailedAfterThree ==
    \E w \in QueueWorkers :
        /\ wpc[w] = "returned"
        /\ wret[w] = "failed"
        /\ tries[w] = 3
        /\ stats.TotalFailed > 0

\* C10: in the step that marks an item Completed, by the already-exists path
\* or by a transfer attempt, source and destination exist and have the same
\* size.
C10_CompletedSizesEqual ==
    [][\A w \in QueueWorkers :
          (Processing(w) /\ wpc'[w] = "returned" /\ cur'[w].Status = StatusCompleted) =>
              /\ VerifySize
              /\ localFs'[cur[w].SourcePath] # Absent
              /\ remoteFs'[cur[w].DestinationPath] = localFs'[cur[w].SourcePath]
    ]_vars

\* C11: once cancellation has fired and Shutdown has returned, no step of the
\* process adds an item to the queue, transfers a file, counts a transfer or
\* schedules a cleanup.
C11_NoWorkAfterShutdown ==
    [][(cancelled /\ phase = "shutdown" /\ phase' = "shutdown") =>
          /\ items' = items
          /\ stats' = stats
          /\ tries' = tries
          /\ remoteFs' = remoteFs
          /\ pendingFiles' = pendingFiles]_vars

\* the label r is the greatest, as a string, of the labels in S
GreatestLabel(r, S) == r \in S /\ \A x \in S : ~StrLess(r, x)

\* C12: when a run that was not cancelled ends, every poller whose playlist
\* reported closed has returned, and the download of every segment it
\* observed has returned.
C12_ClosedPlaylistDownloadsFinished ==
    (phase = "exited" /\ ~cancelled) =>
        \A v \in Variants :
            closed[v] =>
                /\ ppc[v] = "exited"
                /\ \A k \in seen[v] : Returned(v, k)

\* C13: Segments holds exactly one record for every sequence number added
\* and none for any other, the record carries the greatest label added for
\* the number, and the Index entry carries the same label.
C13_OneRecordWithBestResolution ==
    /\ \A i \in 1..Len(mSegments) : mSegments[i].SeqNo \in DOMAIN mAdded
    /\ \A s \in DOMAIN mAdded :
          LET recs == {i \in 1..Len(mSegments) : mSegments[i].SeqNo = s}
          IN  /\ Cardinality(recs) = 1
              /\ \A i \in recs :
                    /\ GreatestLabel(mSegments[i].Resolution, mAdded[s])
                    /\ mIndex[s].Resolution = mSegments[i].Resolution

\* the resolution label of the variant v
VariantResolution(v) == "1080p"

\* a sequence number in decimal
Itoa(n) ==
    CASE n = 0 -> "0" [] n = 1 -> "1" [] n = 2 -> "2" [] n = 3 -> "3" [] n = 4 -> "4"
      [] n = 5 -> "5" [] n = 6 -> "6" [] n = 7 -> "7" [] n = 8 -> "8" [] n = 9 -> "9"

\* C14: when a run that was not cancelled ends, the manifest file holds a
\* record for every segment whose download returned without error.
C14_DownloadedSegmentsInManifest ==
    (phase = "exited" /\ ~cancelled /\ manifestFile.present) =>
        \A v \in Variants : \A k \in AllKeys :
            Downloaded(v, k) =>
                \E i \in 1..Len(manifestFile.segments) :
                    manifestFile.segments[i] = ManifestItem(Itoa(k[1]), VariantResolution(v))

\* C15: the file <local-output>/<event>/<resolution>/<name> is copied to
\* <remote-root>/<event>/<resolution>/<name>, inside the bucket directory the
\* post-processor reads, whether processFile or QueueExistingFiles built the
\* item.
C15_DestinationUnderEventBucket ==
    callResult # NoCall =>
        /\ callResult.target =
              NASOutputPath \o <<callArgs.event, callArgs.resolution, callArgs.name>>
        /\ callResult.target =
              BucketPath(callArgs.event, callArgs.resolution) \o <<callArgs.name>>

\* C16: a settling timer that fires after its file was removed adds no item
\* and changes no counter; an item enters the queue only from a timer that
\* fires while its file exists; and a timer that was stopped or has fired is
\* never armed again, so the burst of a removed file never yields an item.
C16_RemovedFileAddsNoItem ==
    [][/\ \A tp \in armed :
            (tp \in fired' /\ localFs[tp[2]] = Absent) =>
                (items' = items /\ stats' = stats /\ nextId' = nextId)
       /\ (items' # items) =>
            \E tp \in armed : tp \in fired' /\ localFs[tp[2]] # Absent
       /\ \A tp \in armed' \ armed : tp[1] > nextTimer]_vars

\* C16 witness: a timer has fired on a removed file and the queue has never
\* been given an item
C16_TimerFiredOnRemovedFile ==
    /\ fwSkipped # {}
    /\ nextId = 0
    /\ items = <<>>

\* C17 (as stated): whenever ForceCleanupAll has returned nil, the pending
\* list of the cleanup service is empty.
C17_EmptyAfterForceCleanup ==
    fpc = "nil" => pendingFiles = <<>>

\* the call of DownloadSegment has returned
SegmentReturned == callResult # NoCall /\ callArgs.fn = "DownloadSegment" /\ ~callArgs.badRequest

\* the reply to request i is a response with the status c
ReplyStatus(i, c) == callArgs.replies[i].kind = "status" /\ callArgs.replies[i].code = c

\* the reply to request i is a response with a status other than 200 and c
ReplyOther(i, c) ==
    /\ callArgs.replies[i].kind = "status"
    /\ callArgs.replies[i].code \notin {200, c}

\* the second request is issued: the first one failed in transport or got 403
SecondIssued == callArgs.replies[1].kind = "neterr" \/ ReplyStatus(1, 403)

\* the parts of C18 on the number of requests and on the statuses other
\* than 200
SegmentStatusRules ==
    LET r == callResult.ret
    IN  /\ r.requests <= 2
        /\ ReplyStatus(1, 403) => r.requests = 2
        /\ (ReplyStatus(1, 403) /\ ReplyStatus(2, 403)) => r.err = HttpError(403)
        /\ ReplyOther(1, 403) =>
              (r.err = HttpError(callArgs.replies[1].code) /\ r.requests = 1)
        /\ (SecondIssued /\ ReplyOther(2, 200)) =>
              (r.err = HttpError(callArgs.replies[2].code) /\ r.requests = 2)

\* C18 (as stated): at most two requests; a first 403 is followed by a second
\* request; 403 then 200 with a non-empty body returns nil; 403 twice returns
\* HttpError 403; any other status than 200 returns HttpError with that code
\* and no further request.
C18_RetryOnceOn403 ==
    SegmentReturned =>
        /\ SegmentStatusRules
        /\ (ReplyStatus(1, 403) /\ ReplyStatus(2, 200) /\ callArgs.replies[2].body > 0) =>
              callResult.ret.err = NoError

\* C18 (amended): the same, where 403 then 200 with a non-empty body returns
\* nil provided the directory and the file are created and the body is
\* copied without error.
C18_RetryOnceOn403WhenWritten ==
    SegmentReturned =>
        /\ SegmentStatusRules
        /\ (/\ ReplyStatus(1, 403) /\ ReplyStatus(2, 200) /\ callArgs.replies[2].body > 0
            /\ callArgs.fsOutcome = "ok") =>
              (callResult.ret.err = NoError /\ callResult.ret.file)

\* C18 witness: a call answered 403 and then 200 with a body has returned nil
\* after two requests
C18_SucceededOnSecondAttempt ==
    /\ SegmentReturned
    /\ ReplyStatus(1, 403) /\ ReplyStatus(2, 200) /\ callArgs.replies[2].body > 0
    /\ callResult.ret.err = NoError
    /\ callResult.ret.requests = 2

\* the records ParseResolutionDirectory sends for the bucket res
BucketRecords(res) ==
    {[Name |-> procDirs[res][i], SeqNo |-> Atoi(SubSeq(procDirs[res][i], 7, 10)).n,
      Resolution |-> res] :
        i \in {j \in 1..Len(procDirs[res]) :
                 /\ HasTsSuffix(procDirs[res][j])
                 /\ Len(procDirs[res][j]) >= 10
                 /\ ~Atoi(SubSeq(procDirs[res][j], 7, 10)).err}}

\* the buckets that hold the sequence number s
Holders(s) == {res \in DOMAIN procDirs : \E r \in BucketRecords(res) : r.SeqNo = s}

\* the sequence numbers found across all buckets
FoundSeqNos == {r.SeqNo : r \in UNION {BucketRecords(res) : res \in DOMAIN procDirs}}

\* the record for s that depends on the buckets alone: from the holder of the
\* smallest rank, the first file of its listing with that number
ExpectedRecord(s) ==
    LET best == CHOOSE res \in Holders(s) : \A o \in Holders(s) : Rank(res) <= Rank(o)
        first == CHOOSE i \in 1..Len(procDirs[best]) :
                    /\ [Name |-> procDirs[best][i], SeqNo |-> s, Resolution |-> best]
                          \in BucketRecords(best)
                    /\ \A j \in 1..(i - 1) :
                          [Name |-> procDirs[best][j], SeqNo |-> s, Resolution |-> best]
                             \notin BucketRecords(best)
    IN  [Name |-> procDirs[best][first], SeqNo |-> s, Resolution |-> best]

\* AggregateSegmentInfo has returned
Aggregated == procPc \in {"write", "done", "failed"}

\* C19: once AggregateSegmentInfo has returned, the map holds every sequence
\* number found in a bucket; the record kept for it comes from a bucket whose
\* rank is the smallest among the buckets holding the number; and when those
\* buckets are all in the rank table the record is the one fixed by the
\* buckets, whatever the order of arrival on the channel.
C19_SmallestRankKept ==
    Aggregated =>
        /\ DOMAIN segmentMap = FoundSeqNos
        /\ \A s \in FoundSeqNos :
              /\ segmentMap[s].SeqNo = s
              /\ segmentMap[s] \in BucketRecords(segmentMap[s].Resolution)
              /\ \A res \in Holders(s) : Rank(segmentMap[s].Resolution) <= Rank(res)
              /\ (Holders(s) \subseteq RankTable) => segmentMap[s] = ExpectedRecord(s)

\* C19 witness: a sequence number held by the 720p and the 1080p bucket has
\* been aggregated to the 1080p record
C19_BetterBucketWon ==
    /\ Aggregated
    /\ \E s \in FoundSeqNos :
          /\ Holders(s) = {"1080p", "720p"}
          /\ segmentMap[s].Resolution = "1080p"

\* the sequence number of the file a line of the concat file names
LineSeqNo(line) == Atoi(SubSeq(Base(line.file), 7, 10)).n

\* C20: the concat file WriteConcatFile has written holds exactly one line
\* for each sequence number found across the buckets, in strictly ascending
\* order of sequence number.
C20_ConcatOneLinePerSeqNo ==
    procPc = "done" =>
        /\ Len(concatFile.lines) = Cardinality(FoundSeqNos)
        /\ {LineSeqNo(concatFile.lines[i]) : i \in 1..Len(concatFile.lines)} = FoundSeqNos
        /\ \A i, j \in 1..Len(concatFile.lines) :
              i < j => LineSeqNo(concatFile.lines[i]) < LineSeqNo(concatFile.lines[j])

\* C20 witness: a concat file of two lines was written for buckets that hold
\* one of the sequence numbers more than once
C20_TwoLinesWritten ==
    /\ procPc = "done"
    /\ Len(concatFile.lines) = 2
    /\ \E s \in FoundSeqNos : Cardinality(Holders(s)) >= 2

C23_FetchFailureWaitsForTick ==
    [][\A v \in Variants :
          (ppc[v] = "fetch" /\ ppc'[v] \notin {"fetch", "segments", "exited"}) =>
              (ppc'[v] = "waitTick" /\ tasks' = tasks)]_vars

\* C29 (as stated): a poller that was blocked in the send on the semaphore
\* when cancel() ran starts no further download: it leaves the send only by
\* exiting.
C29_BlockedPollerPreempted ==
    [][\A v \in blocked :
          ppc[v] = "acquire" =>
              (ppc'[v] \in {"acquire", "exited"} /\ started'[v] = started[v])]_vars

\* the environment holds none of the variables Load reads
NoOverrides ==
    callArgs.env = [WORKER_COUNT |-> <<>>, REFRESH_DELAY_SECONDS |-> <<>>,
                    NAS_OUTPUT_PATH |-> <<>>, ENABLE_NAS_TRANSFER |-> <<>>]

\* C22 (as stated): Load in an environment without overrides, with a working
\* directory it can read and create directories in, returns no error and a
\* configuration with WorkerCount 4, RefreshDelay 3 s and EnableTransfer true.
C22_LoadDefaults ==
    (/\ callResult # NoCall /\ callArgs.fn = "Load" /\ NoOverrides
     /\ ~callArgs.getwdErr /\ ~callArgs.mkdirErr) =>
        /\ callResult.ret.err = ""
        /\ callResult.ret.cfg # <<>>
        /\ callResult.ret.cfg.WorkerCount = 4
        /\ callResult.ret.cfg.RefreshDelay = 3
        /\ callResult.ret.cfg.EnableTransfer

\* C24 (as stated): when the watcher handles the Create event of a directory
\* made under the watch root, the directory is in the watch set afterwards.
C24_NewDirectoryWatched ==
    [][\A d \in WatchDirs :
          (/\ fsEvents # <<>> /\ Head(fsEvents) = <<"Create", d>>
           /\ fsEvents' = Tail(fsEvents) /\ d \in fsDirs) =>
              d \in fwWatched']_vars

\* C25 (as stated): a cleanup entry whose file is younger than the retention
\* period is skipped only for that round: after cleanupFile has skipped it,
\* the entry is still in the pending list.
C25_TooNewEntryStaysPending ==
    [][(/\ fpc = "files" /\ fBatch # <<>> /\ fBatch' = Tail(fBatch)
        /\ fRetain > 0 /\ Head(fBatch) \in fYoung
        /\ localFs[Head(fBatch)] # Absent) =>
           \E i \in 1..Len(pendingFiles') : pendingFiles'[i] = Head(fBatch)]_vars

\* C28 (as stated): in processItem the first transfer attempt starts with no
\* backoff wait; a backoff wait ends only before the second attempt (after
\* 1 s) and before the third (after 4 s).
C28_NoBackoffBeforeFirstAttempt ==
    [][\A w \in QueueWorkers :
          (wpc[w] = "backoff" /\ wpc'[w] = "transfer") =>
              \/ tries[w] = 1 /\ Backoff(attempt[w]) = 1
              \/ tries[w] = 2 /\ Backoff(attempt[w]) = 4]_vars

\* C26 (as stated): the dispatcher takes an item off the heap only for an idle
\* worker, so the items that have left the heap and are not yet Completed or
\* Failed (buffered in a worker's channel or held by a worker in processItem)
\* are never more than the number of workers.
C26_OutOfHeapWithinWorkerCount ==
    Cardinality({w \in QueueWorkers : chans[w] # <<>>})
        + Cardinality({w \in QueueWorkers : wpc[w] \in {"check", "backoff", "transfer"}})
            <= NumQueueWorkers

C30_DisconnectedOnEveryShutdown ==
    fpc = "down" => nasDisconnected

\* the timers of the path p that are scheduled and have not fired
ArmedFor(a, p) == {t \in 1..MaxFsOps : <<t, p>> \in a}

\* C31 (as stated): when a create or write event of a .ts path is handled
\* while the settling timer started by the previous event of that path has
\* not fired, that timer is stopped: only the timer of the newest event is
\* left to fire, so that the burst adds exactly one Transfer Item.
C31_BurstLeavesOneTimer ==
    [][\A p \in SrcPaths :
          (/\ fsEvents # <<>> /\ fsEvents' = Tail(fsEvents)
           /\ Head(fsEvents)[2] = p /\ Head(fsEvents)[1] \in {"Create", "Write"}
           /\ ArmedFor(armed, p) # {}) =>
              ArmedFor(armed', p) = {nextTimer'}]_vars

\* the timers of the path p that are scheduled or whose callback runs
LiveFor(p) == {t \in 1..MaxFsOps : <<t, p>> \in armed \cup fired}

\* C38 (as stated): for each watched path there is at most one live timer
\* (scheduled, or fired with its callback not yet finished), and pendingFiles
\* maps the path to exactly that timer.
C38_OneLiveTimerPerPath ==
    \A p \in SrcPaths :
        /\ Cardinality(LiveFor(p)) <= 1
        /\ LiveFor(p) = {} => fwPending[p] = NoTimer
        /\ LiveFor(p) # {} => LiveFor(p) = {fwPending[p]}

\* the records ParseResolutionDirectory sends for the bucket res from entry i
\* of its listing on, in the order it sends them
RECURSIVE BucketSeq(_, _)
BucketSeq(res, i) ==
    IF i > Len(procDirs[res]) THEN <<>>
    ELSE LET name == procDirs[res][i]
             rec == [Name |-> name, SeqNo |-> Atoi(SubSeq(name, 7, 10)).n, Resolution |-> res]
         IN  (IF rec \in BucketRecords(res) THEN <<rec>> ELSE <<>>) \o BucketSeq(res, i + 1)

\* AggregateSegmentInfo over the records recs, received in this order
RECURSIVE FoldAggregate(_, _)
FoldAggregate(m, recs) ==
    IF recs = <<>> THEN m ELSE FoldAggregate(AggregateStep(m, Head(recs)), Tail(recs))

\* the map of the run in which the enumeration tasks run one after the other
SequentialMap ==
    FoldAggregate(<<>>, BucketSeq("1080p", 1) \o BucketSeq("1440p", 1)
                            \o BucketSeq("2160p", 1) \o BucketSeq("720p", 1))

\* C32 (as stated): the concat file depends on the content of the buckets
\* alone: whatever the interleaving of the enumeration tasks, the file written
\* is the one of the run in which the tasks run one after the other.
C32_ConcatFileSameForEveryInterleaving ==
    procPc = "done" => concatFile.lines = WriteConcatFile(SequentialMap, "ok", 1).lines

\* C33 (as stated): a .ts file whose name has no integer at positions 6..9,
\* a name shorter than 10 characters included, is skipped: the enumeration
\* task sends nothing for it and goes on with the next file of the bucket.
C33_UnparseableNameSkipped ==
    [][\A res \in BucketLabels :
          (/\ procPos'[res] = procPos[res] + 1
           /\ LET name == procDirs[res][procPos[res] + 1]
              IN  /\ HasTsSuffix(name)
                  /\ (Len(name) < 10 \/ Atoi(SubSeq(name, 7, 10)).err)) =>
              (procPc' = "aggregate" /\ procChan' = procChan)]_vars

\* TotalAdded = TotalCompleted + TotalFailed + CurrentPending
ConsistentStats(qs) == qs.TotalAdded = qs.TotalCompleted + qs.TotalFailed + qs.CurrentPending

\* C34 (as stated): every read of the counters sees a consistent snapshot:
\* both what GetStats returned and the counters in the document SaveState
\* wrote satisfy TotalAdded = TotalCompleted + TotalFailed + CurrentPending.
C34_ReadsSeeConsistentCounters ==
    /\ ConsistentStats(stateFile.stats)
    /\ callResult # NoCall => ConsistentStats(callResult.stats)

\* C35 (as stated): the variants GetAllVariants returns for one master
\* playlist have pairwise distinct output directories.
C35_DistinctOutputDirs ==
    (callResult # NoCall /\ callResult.fn = "GetAllVariants") =>
        \A i, j \in 1..Len(callResult.ret.variants) :
            i # j => callResult.ret.variants[i].OutputDir # callResult.ret.variants[j].OutputDir

\* C36 (as stated): once every poller has exited on a closed playlist, with
\* no cancellation delivered, Download goes on to shut the transfer service
\* down, write the manifest and return (unless a signal arrives after all).
C36_ClosedRunEventuallyReturns ==
    ((\A v \in Variants : ppc[v] = "exited") /\ ~cancelled) ~> (cancelled \/ phase = "exited")

\* the IDs of the items on the heap, buffered for a worker, held by a worker
\* in processItem
RunInHeap == {items[i].ID : i \in 1..Len(items)}

RunInChan == {chans[w][1].ID : w \in {x \in QueueWorkers : chans[x] # <<>>}}

RunInWork == {cur[w].ID : w \in {x \in QueueWorkers : wpc[x] \in {"check", "backoff", "transfer"}}}

RunUnfinished == RunInHeap \cup RunInChan \cup RunInWork

OpenItems ==
    Len(items)
    + Cardinality({w \in QueueWorkers : chans[w] # <<>>})
    + Cardinality({w \in QueueWorkers : wpc[w] \in {"check", "backoff", "transfer"}})

\* C39: in every reachable state CurrentPending is non-negative and equals
\* the number of items added and not yet Completed or Failed, also after a
\* cancellation during processing and after LoadState restored a snapshot.
C39_CurrentPendingCountsOpenItems ==
    /\ stats.CurrentPending >= 0
    /\ stats.CurrentPending = OpenItems

\* C40: whenever DownloadSegment returns a failure (the zero-byte body
\* included), no file of that segment is left in the output directory.
C40_FailedDownloadLeavesNoFile ==
    (callResult.fn = "DownloadSegment" /\ callResult.ret.err # NoError)
        => ~callResult.ret.file

====
